---- MODULE Spec2Model ----
(***************************************************************************)
(* The scalar autograd engine (class Value) and the small network built on *)
(* it (Neuron, NeuronLayer, MLP, createNetwork, calculateLoss) of          *)
(* utils/neural-network.ts.                                                *)
(*                                                                         *)
(* Every Value object that was ever constructed is an entry of `heap`; a   *)
(* node's identity is its index.  Numbers are integers: add, sub, mul and  *)
(* relu are closed on the integers and exact on small integers in IEEE     *)
(* doubles, so the integer model computes what the code computes on them.  *)
(***************************************************************************)
EXTENDS Integers, Sequences, FiniteSets, TLC

VARIABLES
    heap,        \* every Value constructed so far: [data, grad, prev, op, fwd]
    topo,        \* the `topo` array of the most recent Value.backward call
    last,        \* the most recent call: [op, arg, pre] (pre = heap before it)
    count,       \* how many calls of each kind so far (ok: forward calls that
                 \* returned)
    mlp,         \* the MLP object: [inputSize, layerSizes, layers], or NoNet
    inputLayer,  \* MLP.inputLayer: a sequence of node ids, or Null
    err,         \* the Error thrown by the most recent call, "none" if none
    held         \* what the caller holds: its input nodes x, the output
                 \* nodes of its last forward call, its last loss node

vars == <<heap, topo, last, count, mlp, inputLayer, err, held>>

\* ---------------------------------------------------------------- bounds
MaxNodes == 4          \* Value objects constructed in one run of the engine
MaxBackward == 2       \* calls of backward in one run of the engine
Vals == {-1, 2}        \* numbers the caller passes to new Value(...)
MaxSet == 1            \* assignments to .data in one run of the engine
NewVals == {0}         \* numbers the caller assigns to .data afterwards
MaxForward == 1        \* forward calls (and losses built) on one network

\* What the caller passes when it works with a network.  The caller of
\* SpecNet sets parameters before it builds its input, steps (Update) after
\* a backward and zeroes gradients once it holds an output.
Shapes == {[nin |-> 1, nouts |-> <<1>>, activations |-> <<>>],
           [nin |-> 2, nouts |-> <<2, 1>>, activations |-> <<"relu", "linear">>],
           [nin |-> 1, nouts |-> <<2>>, activations |-> <<>>],
           [nin |-> 1, nouts |-> <<>>, activations |-> <<>>]}
LayerCfg(n, a, t) == [neurons |-> n, activation |-> a, type |-> t]
LayerLists == {<<>>,
               <<LayerCfg(2, "linear", "input")>>,
               <<LayerCfg(1, "linear", "input"), LayerCfg(1, "linear", "output")>>,
               <<LayerCfg(1, "linear", "input"), LayerCfg(1, "sigmoid", "hidden"),
                 LayerCfg(1, "linear", "output")>>}
Inputs == {<<3>>, <<3, -1>>}
ParamVals == {2}
ParamIndices == {1}    \* which entries of parameters() the caller assigns
Targets == {10}
LossTypes == {"mse", "mae"}
LearningRates == {1}

Null == <<0>>              \* null: no node has id 0
NoHeld == [x |-> <<>>, out |-> <<>>, loss |-> 0, target |-> 0, type |-> "",
           layers |-> <<>>]
NoNet == [inputSize |-> 0, layerSizes |-> <<>>, layers |-> <<>>, built |-> FALSE]

\* ------------------------------------------------------------ class Value
\* new Value(data, _children, _op): grad starts at 0.  `fwd` is not a field
\* of the code: it records the operands' data as they were when the node was
\* constructed (the forward pass), for the properties that speak about them.
Value(h, data, children, op) ==
    [data |-> data, grad |-> 0, prev |-> children, op |-> op,
     fwd |-> IF Len(children) = 0 THEN <<>>
             ELSE IF Len(children) = 1 THEN <<h[children[1]].data>>
             ELSE <<h[children[1]].data, h[children[2]].data>>]

Max(a, b) == IF a > b THEN a ELSE b

\* add accumulating into its receiver: this.data += other.data
add_inPlace(h, a, b) ==
    Append([h EXCEPT ![a].data = @ + h[b].data],
           Value(h, h[a].data + h[b].data, <<a, b>>, "+"))

\* a.add(b): a new node a.data + b.data over [a, b], appended to the heap.
add(h, a, b) == Append(h, Value(h, h[a].data + h[b].data, <<a, b>>, "+"))

sub(h, a, b) == Append(h, Value(h, h[a].data - h[b].data, <<a, b>>, "-"))

mul(h, a, b) == Append(h, Value(h, h[a].data * h[b].data, <<a, b>>, "*"))

relu(h, a) == Append(h, Value(h, Max(0, h[a].data), <<a>>, "ReLU"))

\* Math.pow(x, n) for an exponent n >= 0
RECURSIVE Math_pow(_, _)
Math_pow(x, n) == IF n = 0 THEN 1 ELSE x * Math_pow(x, n - 1)

\* the _op of a pow node, `^${exponent}`, and the exponent its closure holds
PowOp(exponent) == IF exponent = 2 THEN "^2" ELSE "^3"
PowExponent(op) == IF op = "^2" THEN 2 ELSE 3

\* pow with exponent * data where the code has data ^ exponent
pow_times(h, a, exponent) ==
    Append(h, Value(h, h[a].data * exponent, <<a>>, PowOp(exponent)))

\* a.pow(exponent), the exponent a number (2 or 3 here)
pow(h, a, exponent) ==
    Append(h, Value(h, Math_pow(h[a].data, exponent), <<a>>, PowOp(exponent)))

\* Math.log(x) where it is an integer: at 1
Math_log(x) == CASE x = 1 -> 0

\* log that builds its node before it looks at the value
log_buildFirst(h, a) ==
    [heap |-> Append(h, Value(h, 0, <<a>>, "log")),
     err  |-> IF h[a].data <= 0 THEN "LogNonPositive" ELSE "none"]

\* a.log(): throws on data <= 0, else the node Math.log(data) over [a]
log(h, a) ==
    IF h[a].data <= 0
    THEN [heap |-> h, err |-> "LogNonPositive"]
    ELSE [heap |-> Append(h, Value(h, Math_log(h[a].data), <<a>>, "log")),
          err  |-> "none"]

\* out._backward with relu's derivative 1 at data = 0 (>= for >).
out_backward_reluAtZero(h, n) ==
    LET p == h[n].prev
        g == h[n].grad
    IN  CASE h[n].op = "+" ->
               LET h1 == [h EXCEPT ![p[1]].grad = @ + 1 * g]
               IN  [h1 EXCEPT ![p[2]].grad = @ + 1 * g]
          [] h[n].op = "-" ->
               LET h1 == [h EXCEPT ![p[1]].grad = @ + 1 * g]
               IN  [h1 EXCEPT ![p[2]].grad = @ + (-1) * g]
          [] h[n].op = "*" ->
               LET h1 == [h EXCEPT ![p[1]].grad = @ + h[p[2]].data * g]
               IN  [h1 EXCEPT ![p[2]].grad = @ + h1[p[1]].data * g]
          [] h[n].op = "ReLU" ->
               [h EXCEPT ![p[1]].grad = @ + (IF h[p[1]].data >= 0 THEN 1 ELSE 0) * g]
          [] OTHER -> h

\* out._backward with `=` where mul has `+=`.
out_backward_overwrite(h, n) ==
    LET p == h[n].prev
        g == h[n].grad
    IN  CASE h[n].op = "+" ->
               LET h1 == [h EXCEPT ![p[1]].grad = @ + 1 * g]
               IN  [h1 EXCEPT ![p[2]].grad = @ + 1 * g]
          [] h[n].op = "-" ->
               LET h1 == [h EXCEPT ![p[1]].grad = @ + 1 * g]
               IN  [h1 EXCEPT ![p[2]].grad = @ + (-1) * g]
          [] h[n].op = "*" ->
               LET h1 == [h EXCEPT ![p[1]].grad = h[p[2]].data * g]
               IN  [h1 EXCEPT ![p[2]].grad = h1[p[1]].data * g]
          [] h[n].op = "ReLU" ->
               [h EXCEPT ![p[1]].grad = @ + (IF h[p[1]].data > 0 THEN 1 ELSE 0) * g]
          [] OTHER -> h

\* out._backward computing both operands' new gradients from the gradients
\* they hold when the closure starts, and storing them afterwards.
out_backward_snapshot(h, n) ==
    LET p == h[n].prev
        g == h[n].grad
    IN  CASE h[n].op = "+" ->
               LET h1 == [h EXCEPT ![p[1]].grad = h[p[1]].grad + 1 * g]
               IN  [h1 EXCEPT ![p[2]].grad = h[p[2]].grad + 1 * g]
          [] h[n].op = "-" ->
               LET h1 == [h EXCEPT ![p[1]].grad = h[p[1]].grad + 1 * g]
               IN  [h1 EXCEPT ![p[2]].grad = h[p[2]].grad + (-1) * g]
          [] h[n].op = "*" ->
               LET h1 == [h EXCEPT ![p[1]].grad = h[p[1]].grad + h[p[2]].data * g]
               IN  [h1 EXCEPT ![p[2]].grad = h[p[2]].grad + h[p[1]].data * g]
          [] h[n].op = "ReLU" ->
               [h EXCEPT ![p[1]].grad = @ + (IF h[p[1]].data > 0 THEN 1 ELSE 0) * g]
          [] OTHER -> h

\* out._backward(): the closure of node n.  Each closure runs its
\* statements in turn, reading this.data / otherValue.data / out.grad of
\* the objects as they are when it runs.
out_backward(h, n) ==
    LET p == h[n].prev
        g == h[n].grad
    IN  CASE h[n].op = "+" ->
               LET h1 == [h EXCEPT ![p[1]].grad = @ + 1 * g]
               IN  [h1 EXCEPT ![p[2]].grad = @ + 1 * g]
          [] h[n].op = "-" ->
               LET h1 == [h EXCEPT ![p[1]].grad = @ + 1 * g]
               IN  [h1 EXCEPT ![p[2]].grad = @ + (-1) * g]
          [] h[n].op = "*" ->
               LET h1 == [h EXCEPT ![p[1]].grad = @ + h[p[2]].data * g]
               IN  [h1 EXCEPT ![p[2]].grad = @ + h1[p[1]].data * g]
          [] h[n].op = "ReLU" ->
               [h EXCEPT ![p[1]].grad = @ + (IF h[p[1]].data > 0 THEN 1 ELSE 0) * g]
          [] h[n].op \in {"^2", "^3"} ->
               [h EXCEPT ![p[1]].grad =
                    @ + (PowExponent(h[n].op)
                         * Math_pow(h[p[1]].data, PowExponent(h[n].op) - 1)) * g]
          [] h[n].op = "log" ->
               \* (1.0 / this.data) * out.grad, this.data being 1
               [h EXCEPT ![p[1]].grad = @ + (1 \div h[p[1]].data) * g]
          [] OTHER -> h

\* buildTopo(v): depth-first, a node is pushed after its children; `st` is
\* the pair of locals (visited, topo) of backward.
RECURSIVE buildTopo(_, _, _), buildTopoChildren(_, _, _, _)
buildTopo(h, v, st) ==
    IF v \in st.visited
    THEN st
    ELSE LET s1 == [st EXCEPT !.visited = @ \cup {v}]
             s2 == buildTopoChildren(h, h[v].prev, 1, s1)
         IN  [s2 EXCEPT !.topo = Append(@, v)]

buildTopoChildren(h, cs, i, st) ==
    IF i > Len(cs)
    THEN st
    ELSE buildTopoChildren(h, cs, i + 1, buildTopo(h, cs[i], st))

\* buildTopo without the visited set: a shared node is pushed once per path.
RECURSIVE buildTopo_noVisited(_, _, _), buildTopoChildren_noVisited(_, _, _, _)
buildTopo_noVisited(h, v, st) ==
    LET s2 == buildTopoChildren_noVisited(h, h[v].prev, 1, st)
    IN  [s2 EXCEPT !.topo = Append(@, v)]

buildTopoChildren_noVisited(h, cs, i, st) ==
    IF i > Len(cs)
    THEN st
    ELSE buildTopoChildren_noVisited(h, cs, i + 1, buildTopo_noVisited(h, cs[i], st))

topoOf_noVisited(h, root) ==
    buildTopo_noVisited(h, root, [visited |-> {}, topo |-> <<>>]).topo

\* const topo = []; const visited = new Set(); buildTopo(this)
topoOf(h, root) == buildTopo(h, root, [visited |-> {}, topo |-> <<>>]).topo

\* the loop running over topo as built, the reverse() call left out
Reverse_none(s) == s

\* Array.prototype.reverse
RECURSIVE Reverse(_)
Reverse(s) == IF s = <<>> THEN <<>> ELSE Append(Reverse(Tail(s)), Head(s))

\* for (const node of topo.reverse()) node._backward()
RECURSIVE runBackward(_, _, _)
runBackward(h, order, i) ==
    IF i > Len(order)
    THEN h
    ELSE runBackward(out_backward(h, order[i]), order, i + 1)

\* backward seeding with this.grad += 1.0
backward_seedAdds(h, root) ==
    runBackward([h EXCEPT ![root].grad = @ + 1], Reverse(topoOf(h, root)), 1)

\* backward clearing the gradient of every node of topo before it seeds
RECURSIVE zeroNodes(_, _)
zeroNodes(h, ns) ==
    IF ns = <<>> THEN h ELSE zeroNodes([h EXCEPT ![Head(ns)].grad = 0], Tail(ns))

backward_zeroFirst(h, root) ==
    runBackward([zeroNodes(h, topoOf(h, root)) EXCEPT ![root].grad = 1],
                Reverse(topoOf(h, root)), 1)

\* v.backward(): build topo, seed this.grad = 1.0, run the closures.
backward(h, root) ==
    LET t == topoOf(h, root)
        h1 == [h EXCEPT ![root].grad = 1]
    IN  runBackward(h1, Reverse(t), 1)

\* ------------------------------------------------------------ class Module
\* new Value(v) n times: Array(n).fill(0).map(() => new Value(v))
RECURSIVE newValues(_, _, _)
newValues(h, n, v) ==
    IF n = 0 THEN h
    ELSE LET h1 == newValues(h, n - 1, v) IN Append(h1, Value(h1, v, <<>>, ""))

\* the ids a, a+1, ..., a+n-1
RECURSIVE IdRange(_, _)
IdRange(a, n) == IF n = 0 THEN <<>> ELSE Append(IdRange(a, n - 1), a + n - 1)

\* zeroGrad clearing the gradient of every node there is
RECURSIVE zeroGrad_everyNode(_, _)
zeroGrad_everyNode(h, ps) ==
    IF h = <<>> THEN <<>>
    ELSE Append(zeroGrad_everyNode(SubSeq(h, 1, Len(h) - 1), ps),
                [h[Len(h)] EXCEPT !.grad = 0])

\* for (const p of this.parameters()) p.grad = 0
RECURSIVE zeroGrad(_, _)
zeroGrad(h, ps) ==
    IF ps = <<>> THEN h
    ELSE zeroGrad([h EXCEPT ![Head(ps)].grad = 0], Tail(ps))

\* ------------------------------------------------------------ class Neuron
\* Math.random() * 0.1 - 0.05 lies in [-0.05, 0.05): the one integer there,
\* 0, is what it yields for Math.random() = 0.5.
InitWeight == 0

\* new Neuron(nin, activation, nonlin): nin weights, then the bias.
Neuron(h, nin, activation, nonlin) ==
    LET h1 == newValues(h, nin, InitWeight)
    IN  [heap |-> Append(h1, Value(h1, 0, <<>>, "")),
         obj  |-> [w |-> IdRange(Len(h) + 1, nin), b |-> Len(h) + nin + 1,
                   nonlin |-> nonlin, activation |-> activation]]

\* [...this.w, this.b] with the bias first
Neuron_parameters_biasFirst(n) == <<n.b>> \o n.w

\* Neuron.parameters(): [...this.w, this.b]
Neuron_parameters(n) == Append(n.w, n.b)

\* let act = this.b; for (i) act = act.add(this.w[i].mul(x[i]))
RECURSIVE Neuron_sum(_, _, _, _)
Neuron_sum(h, n, x, i) ==
    IF i = 0 THEN [heap |-> h, act |-> n.b]
    ELSE LET r  == Neuron_sum(h, n, x, i - 1)
             h1 == mul(r.heap, n.w[i], x[i])
             h2 == add(h1, r.act, Len(h1))
         IN  [heap |-> h2, act |-> Len(h2)]

\* Neuron.forward(x).  The activation kinds of the model are relu and
\* linear: the values of sigmoid and tanh are not integers.
Neuron_activate(n, s) ==
    IF ~n.nonlin
    THEN [heap |-> s.heap, err |-> "none", out |-> s.act]
    ELSE IF n.activation = "relu"
    THEN [heap |-> relu(s.heap, s.act), err |-> "none", out |-> Len(s.heap) + 1]
    ELSE [heap |-> s.heap, err |-> "none", out |-> s.act]

Neuron_forward(h, n, x) ==
    IF Len(x) # Len(n.w)
    THEN [heap |-> h, err |-> "InputSize", out |-> 0]
    ELSE Neuron_activate(n, Neuron_sum(h, n, x, Len(n.w)))

\* ------------------------------------------------------- class NeuronLayer
\* Array(nout).fill(neuron): the same object nout times
RECURSIVE Array_fill(_, _)
Array_fill(nout, neuron) ==
    IF nout = 0 THEN <<>> ELSE Append(Array_fill(nout - 1, neuron), neuron)

\* a layer whose slots all hold one and the same Neuron
Array_fillWith(nout, n) == [heap |-> n.heap, obj |-> Array_fill(nout, n.obj)]

NeuronLayer_fill(h, nin, nout, activation, nonlin) ==
    IF nout = 0 THEN [heap |-> h, obj |-> <<>>]
    ELSE Array_fillWith(nout, Neuron(h, nin, activation, nonlin))

\* new NeuronLayer(nin, nout, activation, nonlin): its `neurons` array.
RECURSIVE NeuronLayer(_, _, _, _, _)
NeuronLayer(h, nin, nout, activation, nonlin) ==
    IF nout = 0 THEN [heap |-> h, obj |-> <<>>]
    ELSE LET r == NeuronLayer(h, nin, nout - 1, activation, nonlin)
             n == Neuron(r.heap, nin, activation, nonlin)
         IN  [heap |-> n.heap, obj |-> Append(r.obj, n.obj)]

\* this.neurons.map(n => n.forward(x)) over the first k neurons; a throw
\* ends the map.
\* the map's result with the output f of one more neuron
NeuronLayer_collect(outs, f) ==
    [heap |-> f.heap, err |-> f.err,
     out |-> IF f.err = "none" THEN Append(outs, f.out) ELSE outs]

\* one step of the map: r is the result so far, n the next neuron
NeuronLayer_forwardOne(r, n, x) ==
    IF r.err # "none" THEN r
    ELSE NeuronLayer_collect(r.out, Neuron_forward(r.heap, n, x))

RECURSIVE NeuronLayer_forwardK(_, _, _, _)
NeuronLayer_forwardK(h, layer, x, k) ==
    IF k = 0 THEN [heap |-> h, err |-> "none", out |-> <<>>]
    ELSE NeuronLayer_forwardOne(NeuronLayer_forwardK(h, layer, x, k - 1),
                                layer[k], x)

NeuronLayer_forward(h, layer, x) == NeuronLayer_forwardK(h, layer, x, Len(layer))

\* this.neurons.flatMap(n => n.parameters())
RECURSIVE NeuronLayer_parameters(_)
NeuronLayer_parameters(layer) ==
    IF layer = <<>> THEN <<>>
    ELSE Neuron_parameters(Head(layer)) \o NeuronLayer_parameters(Tail(layer))

\* --------------------------------------------------------------- class MLP
\* the constructor's loop over the first i of the n layers
RECURSIVE MLP_layers(_, _, _, _, _)
MLP_layers(h, sizes, activations, i, n) ==
    IF i = 0 THEN [heap |-> h, obj |-> <<>>]
    ELSE LET r   == MLP_layers(h, sizes, activations, i - 1, n)
             act == IF i <= Len(activations) THEN activations[i] ELSE "relu"
             l   == NeuronLayer(r.heap, sizes[i], sizes[i + 1], act, i # n)
         IN  [heap |-> l.heap, obj |-> Append(r.obj, l.obj)]

\* new MLP(nin, nouts, activations); the caller's inputLayer starts null.
MLP(h, nin, nouts, activations) ==
    LET r == MLP_layers(h, <<nin>> \o nouts, activations, Len(nouts), Len(nouts))
    IN  [heap |-> r.heap,
         obj  |-> [inputSize |-> nin, layerSizes |-> nouts, layers |-> r.obj,
                   built |-> TRUE]]

\* for (const layer of this.layers) current = layer.forward(current)
\* current = layer.forward(current), r holding `current`
MLP_feedOne(r, layer) ==
    IF r.err # "none" THEN r ELSE NeuronLayer_forward(r.heap, layer, r.out)

RECURSIVE MLP_feed(_, _, _, _)
MLP_feed(h, layers, x, i) ==
    IF i = 0 THEN [heap |-> h, err |-> "none", out |-> x]
    ELSE MLP_feedOne(MLP_feed(h, layers, x, i - 1), layers[i])

\* what MLP.forward leaves once the loop is over: inputLayer is x, and
\* `current` is returned
MLP_forward_return(r, x) ==
    [heap |-> r.heap, inputLayer |-> x, err |-> r.err, out |-> r.out]

\* forward returning `current` whatever its length
MLP_forward_value_noUnwrap(current) == [isArray |-> TRUE, value |-> current]

\* return current.length === 1 ? current[0] : current: a Value or an array
\* of them, which the caller tells apart with Array.isArray
MLP_forward_value(current) ==
    IF Len(current) = 1 THEN [isArray |-> FALSE, value |-> current[1]]
    ELSE [isArray |-> TRUE, value |-> current]

\* MLP.forward with this.inputLayer = x moved before the length check
MLP_forward_storeFirst(h, net, il, x) ==
    IF Len(x) # net.inputSize
    THEN [heap |-> h, inputLayer |-> x, err |-> "InputSize", out |-> <<>>]
    ELSE MLP_forward_return(MLP_feed(h, net.layers, x, Len(net.layers)), x)

\* MLP.forward(x): `out` is `current`; the caller gets current[0] when its
\* length is 1, the array otherwise.
MLP_forward(h, net, il, x) ==
    IF Len(x) # net.inputSize
    THEN [heap |-> h, inputLayer |-> il, err |-> "InputSize", out |-> <<>>]
    ELSE MLP_forward_return(MLP_feed(h, net.layers, x, Len(net.layers)), x)

\* this.layers.flatMap(l => l.parameters())
RECURSIVE MLP_parametersOf(_)
MLP_parametersOf(layers) ==
    IF layers = <<>> THEN <<>>
    ELSE NeuronLayer_parameters(Head(layers)) \o MLP_parametersOf(Tail(layers))

MLP_parameters(net) == MLP_parametersOf(net.layers)

\* the loop of getActivations over the first i layers
\* activations.push(current), f holding the new `current`
getActivations_push(acts, f) ==
    [heap |-> f.heap, err |-> f.err, out |-> f.out,
     acts |-> IF f.err = "none" THEN Append(acts, f.out) ELSE acts]

\* one step of the loop: r is the result so far
getActivations_feedOne(r, layer) ==
    IF r.err # "none" THEN r
    ELSE getActivations_push(r.acts, NeuronLayer_forward(r.heap, layer, r.out))

\* getActivations with `activations` starting empty
RECURSIVE getActivations_feed_noInput(_, _, _, _)
getActivations_feed_noInput(h, layers, il, i) ==
    IF i = 0 THEN [heap |-> h, err |-> "none", out |-> il, acts |-> <<>>]
    ELSE getActivations_feedOne(getActivations_feed_noInput(h, layers, il, i - 1),
                                layers[i])

RECURSIVE getActivations_feed(_, _, _, _)
getActivations_feed(h, layers, il, i) ==
    IF i = 0 THEN [heap |-> h, err |-> "none", out |-> il, acts |-> <<il>>]
    ELSE getActivations_feedOne(getActivations_feed(h, layers, il, i - 1), layers[i])

getActivations_return(r) == [heap |-> r.heap, err |-> r.err, acts |-> r.acts]

\* MLP.getActivations()
getActivations(h, net, il) ==
    IF il = Null
    THEN [heap |-> h, err |-> "NoInputLayer", acts |-> <<>>]
    ELSE getActivations_return(getActivations_feed(h, net.layers, il, Len(net.layers)))

\* targetParams[i].data = sourceParams[i].data and .grad likewise
clone_copyOne(h, s, t) ==
    [h EXCEPT ![t].data = h[s].data, ![t].grad = h[s].grad]

\* the loop of clone over the first i parameters
RECURSIVE clone_copy(_, _, _, _)
clone_copy(h, sourceParams, targetParams, i) ==
    IF i = 0 THEN h
    ELSE clone_copyOne(clone_copy(h, sourceParams, targetParams, i - 1),
                       sourceParams[i], targetParams[i])

\* what clone returns: newMLP, r being the result of the constructor
clone_return(r, sourceParams) ==
    [heap |-> clone_copy(r.heap, sourceParams, MLP_parameters(r.obj),
                         Len(sourceParams)),
     obj  |-> r.obj]

\* clone handing out an object built on the layers of the source
clone_shared(h, net) == [heap |-> h, obj |-> net]

\* MLP.clone(): new MLP(this.inputSize, this.layerSizes), no activations
\* passed, then the values and the gradients copied parameter by parameter.
clone(h, net) ==
    clone_return(MLP(h, net.inputSize, net.layerSizes, <<>>), MLP_parameters(net))

\* layers.slice(1).map(l => l.neurons)
RECURSIVE neuronsOf(_)
neuronsOf(ls) ==
    IF ls = <<>> THEN <<>> ELSE <<Head(ls).neurons>> \o neuronsOf(Tail(ls))

\* what createNetwork returns or throws after the validation pass f
createNetwork_return(net, f) ==
    IF f.err # "none"
    THEN [heap |-> f.heap, mlp |-> NoNet, inputLayer |-> Null, err |-> "FailedCreate"]
    ELSE [heap |-> f.heap, mlp |-> net, inputLayer |-> f.inputLayer, err |-> "none"]

\* const testInput = Array(n).fill(0).map(() => new Value(0));
\* network.forward(testInput), m being the network just constructed
createNetwork_validate(m, n) ==
    createNetwork_return(m.obj,
        MLP_forward(newValues(m.heap, n, 0), m.obj, Null, IdRange(Len(m.heap) + 1, n)))

\* createNetwork(layers): the network, after its validation forward pass
\* on an all-zero input, or the Error it throws.
createNetwork(h, layers) ==
    IF Len(layers) < 2
    THEN [heap |-> h, mlp |-> NoNet, inputLayer |-> Null, err |-> "NetworkLayers"]
    ELSE createNetwork_validate(
             MLP(h, layers[1].neurons, neuronsOf(Tail(layers)), <<>>),
             layers[1].neurons)

\* a.mul(k) for a number k: otherValue = new Value(k), then the product
mul_number(h, a, k) ==
    LET h1 == Append(h, Value(h, k, <<>>, "")) IN mul(h1, a, Len(h1))

\* predicted.add(targetValue), the sign of the target lost
diffOf_noNegation(h, predicted, targetValue) == add(h, predicted, targetValue)

\* predicted.add(targetValue.mul(-1))
diffOf(h, predicted, targetValue) ==
    LET h1 == mul_number(h, targetValue, -1) IN add(h1, predicted, Len(h1))

\* calculateLoss whose mae is relu(diff) alone
calculateLoss_maeOneRelu(h, predicted, target, type) ==
    LET h0 == Append(h, Value(h, target, <<>>, ""))
        h1 == diffOf(h0, predicted, Len(h0))
    IN  IF type = "mae" THEN relu(h1, Len(h1))
        ELSE mul(diffOf(h1, predicted, Len(h0)), Len(h1), Len(h1) + 3)

\* calculateLoss(predicted, target, type): the loss node is the last one.
calculateLoss(h, predicted, target, type) ==
    LET h0 == Append(h, Value(h, target, <<>>, ""))
        targetValue == Len(h0)
    IN  IF type = "mae"
        THEN LET h1 == diffOf(h0, predicted, targetValue)
                 diff == Len(h1)
                 h2 == relu(h1, diff)
                 h3 == mul_number(h2, diff, -1)
                 h4 == relu(h3, Len(h3))
             IN  add(h4, Len(h2), Len(h4))
        ELSE LET h1 == diffOf(h0, predicted, targetValue)
                 h2 == diffOf(h1, predicted, targetValue)
             IN  mul(h2, Len(h1), Len(h2))

\* prediction.add(target.mul(-1)).pow(2), d being the heap with the difference
powLoss_square(d) == pow(d, Len(d), 2)

\* const target = new Value(y); const loss = prediction.add(target.mul(-1)).pow(2)
powLoss_target(h0, prediction) == powLoss_square(diffOf(h0, prediction, Len(h0)))

powLoss(h, prediction, y) ==
    powLoss_target(Append(h, Value(h, y, <<>>, "")), prediction)

\* for (const param of network.parameters()) param.data -= learningRate * param.grad
RECURSIVE updateParams(_, _, _)
updateParams(h, ps, lr) ==
    IF ps = <<>> THEN h
    ELSE updateParams([h EXCEPT ![Head(ps)].data = @ - lr * h[Head(ps)].grad],
                      Tail(ps), lr)

\* ------------------------------------------------------- engine actions
Ids == 1..Len(heap)
IsLeaf(h, n) == h[n].prev = <<>>
NoCount == [backward |-> 0, set |-> 0, forward |-> 0, neuron |-> 0, loss |-> 0,
            zeroGrad |-> 0, update |-> 0, acts |-> 0, input |-> 0, ok |-> 0]
NoCall == [op |-> "init", arg |-> 0, pre |-> <<>>, ret |-> <<>>]
Call(op, arg, pre) == [op |-> op, arg |-> arg, pre |-> pre, ret |-> <<>>]

Init ==
    /\ heap = <<>>
    /\ topo = <<>>
    /\ last = NoCall
    /\ count = NoCount
    /\ mlp = NoNet
    /\ inputLayer = Null
    /\ err = "none"
    /\ held = NoHeld

\* new Value(v)
NewValue ==
    \E v \in Vals :
        /\ Len(heap) < MaxNodes
        /\ heap' = Append(heap, Value(heap, v, <<>>, ""))
        /\ last' = Call("new", Len(heap) + 1, <<>>)
        /\ topo' = <<>>
        /\ UNCHANGED <<count, mlp, inputLayer, err, held>>

Add ==
    \E a \in Ids, b \in Ids :
        /\ Len(heap) < MaxNodes
        /\ heap' = add(heap, a, b)
        /\ last' = [Call("add", Len(heap) + 1, <<>>) EXCEPT !.ret = <<a, b>>]
        /\ topo' = <<>>
        /\ UNCHANGED <<count, mlp, inputLayer, err, held>>

Mul ==
    \E a \in Ids, b \in Ids :
        /\ Len(heap) < MaxNodes
        /\ heap' = mul(heap, a, b)
        /\ last' = [Call("mul", Len(heap) + 1, <<>>) EXCEPT !.ret = <<a, b>>]
        /\ topo' = <<>>
        /\ UNCHANGED <<count, mlp, inputLayer, err, held>>

Relu ==
    \E a \in Ids :
        /\ Len(heap) < MaxNodes
        /\ heap' = relu(heap, a)
        /\ last' = [Call("relu", Len(heap) + 1, <<>>) EXCEPT !.ret = <<a>>]
        /\ topo' = <<>>
        /\ UNCHANGED <<count, mlp, inputLayer, err, held>>

\* leaf.data = v: an assignment by the caller (a parameter update).
SetData ==
    \E a \in Ids, v \in NewVals :
        /\ IsLeaf(heap, a)
        /\ heap[a].data # v
        /\ count.set < MaxSet
        /\ heap' = [heap EXCEPT ![a].data = v]
        /\ last' = Call("set", a, <<>>)
        /\ count' = [count EXCEPT !.set = @ + 1]
        /\ topo' = <<>>
        /\ UNCHANGED <<mlp, inputLayer, err, held>>

\* root.backward()
Backward ==
    \E root \in Ids :
        /\ count.backward < MaxBackward
        /\ heap' = backward(heap, root)
        /\ topo' = topoOf(heap, root)
        /\ last' = Call("backward", root, heap)
        /\ count' = [count EXCEPT !.backward = @ + 1]
        /\ UNCHANGED <<mlp, inputLayer, err, held>>

Next == NewValue \/ Add \/ Mul \/ Relu \/ SetData \/ Backward

Spec == Init /\ [][Next]_vars

\* ---------------------------------------------- operations on two leaves
\* What the caller passes when it applies the operations: two leaves a and
\* b with values in OpVals, the nodes 1 and 2.
OpVals == -1..2
Exponents == {2}

InitOps ==
    /\ \E a \in OpVals, b \in OpVals :
          heap = <<Value(<<>>, a, <<>>, ""), Value(<<>>, b, <<>>, "")>>
    /\ topo = <<>>
    /\ last = NoCall
    /\ count = NoCount
    /\ mlp = NoNet
    /\ inputLayer = Null
    /\ err = "none"
    /\ held = NoHeld

Sub ==
    \E a \in Ids, b \in Ids :
        /\ Len(heap) < MaxNodes
        /\ heap' = sub(heap, a, b)
        /\ last' = [Call("sub", Len(heap) + 1, <<>>) EXCEPT !.ret = <<a, b>>]
        /\ topo' = <<>>
        /\ UNCHANGED <<count, mlp, inputLayer, err, held>>

Pow ==
    \E a \in Ids, e \in Exponents :
        /\ Len(heap) < MaxNodes
        /\ heap' = pow(heap, a, e)
        /\ last' = [Call("pow", Len(heap) + 1, <<>>) EXCEPT !.ret = <<a>>]
        /\ topo' = <<>>
        /\ UNCHANGED <<count, mlp, inputLayer, err, held>>

\* a.log(), on a node whose logarithm is an integer or that makes log throw
Log ==
    \E a \in Ids :
        /\ Len(heap) < MaxNodes
        /\ heap[a].data <= 1
        /\ LET r == log(heap, a)
           IN  /\ heap' = r.heap
               /\ err' = r.err
        /\ last' = Call("log", a, heap)
        /\ topo' = <<>>
        /\ UNCHANGED <<count, mlp, inputLayer, held>>

\* the loss of the prediction a against the number b holds, built the way
\* calculateLoss or the training loop (pow) builds it
Loss ==
    \E type \in LossTypes \cup {"pow"} :
        /\ Len(heap) = 2
        /\ count.loss < MaxForward
        /\ heap' = IF type = "pow" THEN powLoss(heap, 1, heap[2].data)
                   ELSE calculateLoss(heap, 1, heap[2].data, type)
        /\ held' = [held EXCEPT !.out = <<1>>, !.loss = Len(heap'),
                                !.target = heap[2].data, !.type = type]
        /\ count' = [count EXCEPT !.loss = @ + 1]
        /\ last' = Call("loss", heap[2].data, <<>>)
        /\ topo' = <<>>
        /\ UNCHANGED <<mlp, inputLayer, err>>

NextOps == Add \/ Sub \/ Mul \/ Relu \/ Pow \/ Log \/ Loss \/ Backward

SpecOps == InitOps /\ [][NextOps]_vars

\* ------------------------------------------------------ network actions
\* new MLP(nin, nouts, activations)
NewMLP ==
    \E sh \in Shapes :
        /\ ~mlp.built
        /\ LET r == MLP(heap, sh.nin, sh.nouts, sh.activations)
           IN  /\ heap' = r.heap
               /\ mlp' = r.obj
        /\ inputLayer' = Null
        /\ err' = "none"
        /\ last' = Call("MLP", 1 + Len(sh.nouts), <<>>)
        /\ topo' = <<>>
        /\ UNCHANGED <<count, held>>

\* createNetwork(layers)
CreateNetwork ==
    \E layers \in LayerLists :
        /\ ~mlp.built
        /\ LET r == createNetwork(heap, layers)
           IN  /\ heap' = r.heap
               /\ mlp' = r.mlp
               /\ inputLayer' = r.inputLayer
               /\ err' = r.err
        /\ held' = [held EXCEPT !.layers = layers]
        /\ last' = Call("createNetwork", Len(layers), <<>>)
        /\ topo' = <<>>
        /\ UNCHANGED count

\* param.data = v, by the caller
SetParam ==
    \E i \in ParamIndices \cap (1..Len(MLP_parameters(mlp))), v \in ParamVals :
        LET p == MLP_parameters(mlp)[i]
        IN  /\ mlp.built
            /\ count.set < MaxSet
            /\ count.input = 0
            /\ heap[p].data # v
            /\ heap' = [heap EXCEPT ![p].data = v]
            /\ count' = [count EXCEPT !.set = @ + 1]
            /\ last' = Call("set", p, <<>>)
            /\ err' = "none"
            /\ topo' = <<>>
            /\ UNCHANGED <<mlp, inputLayer, held>>

\* input.map(x => new Value(x))
RECURSIVE inputValues(_, _)
inputValues(h, x) ==
    IF x = <<>> THEN h
    ELSE inputValues(Append(h, Value(h, Head(x), <<>>, "")), Tail(x))

\* const input = [new Value(x1), ...], by the caller
NewInput ==
    \E x \in Inputs :
        /\ mlp.built
        /\ count.input < MaxForward
        /\ heap' = inputValues(heap, x)
        /\ held' = [held EXCEPT !.x = IdRange(Len(heap) + 1, Len(x))]
        /\ count' = [count EXCEPT !.input = @ + 1]
        /\ last' = Call("input", Len(x), <<>>)
        /\ err' = "none"
        /\ topo' = <<>>
        /\ UNCHANGED <<mlp, inputLayer>>

\* network.forward(input)
Forward ==
    /\ mlp.built
    /\ count.forward < MaxForward
    /\ LET r == MLP_forward(heap, mlp, inputLayer, held.x)
       IN  /\ heap' = r.heap
           /\ inputLayer' = r.inputLayer
           /\ err' = r.err
           /\ held' = IF r.err = "none" THEN [held EXCEPT !.out = r.out] ELSE held
           /\ last' = [Call("forward", Len(held.x), <<>>)
                         EXCEPT !.ret = MLP_forward_value(r.out)]
    /\ count' = [count EXCEPT !.forward = @ + 1,
                              !.ok = IF err' = "none" THEN @ + 1 ELSE @]
    /\ topo' = <<>>
    /\ UNCHANGED mlp

\* network.layers[l].neurons[k].forward(input)
NeuronForward ==
    \E l \in 1..Len(mlp.layers) : \E k \in 1..Len(mlp.layers[l]) :
        /\ l = 1
        /\ mlp.built
        /\ count.neuron < MaxSet
        /\ count.forward = 0
        /\ LET r == Neuron_forward(heap, mlp.layers[l][k], held.x)
           IN  /\ heap' = r.heap
               /\ err' = r.err
               /\ held' = IF r.err = "none" THEN [held EXCEPT !.out = <<r.out>>]
                          ELSE held
        /\ count' = [count EXCEPT !.neuron = @ + 1]
        /\ last' = Call("Neuron.forward", Len(held.x), <<>>)
        /\ topo' = <<>>
        /\ UNCHANGED <<mlp, inputLayer>>

\* const prediction = Array.isArray(output) ? output[0] : output;
\* const loss = calculateLoss(prediction, target, type)
CalculateLoss ==
    \E t \in Targets, type \in LossTypes :
        /\ held.out # <<>>
        /\ count.loss < MaxForward
        /\ heap' = calculateLoss(heap, held.out[1], t, type)
        /\ held' = [held EXCEPT !.loss = Len(heap'), !.target = t, !.type = type]
        /\ count' = [count EXCEPT !.loss = @ + 1]
        /\ last' = Call("calculateLoss", t, <<>>)
        /\ err' = "none"
        /\ topo' = <<>>
        /\ UNCHANGED <<mlp, inputLayer>>

\* network.zeroGrad()
ZeroGrad ==
    /\ mlp.built
    /\ count.zeroGrad < MaxBackward
    /\ held.out # <<>>
    /\ heap' = zeroGrad(heap, MLP_parameters(mlp))
    /\ count' = [count EXCEPT !.zeroGrad = @ + 1]
    /\ last' = Call("zeroGrad", 0, heap)
    /\ err' = "none"
    /\ topo' = <<>>
    /\ UNCHANGED <<mlp, inputLayer, held>>

\* loss.backward(), or backward on an output node the caller holds
BackwardHeld ==
    \E root \in ({held.loss} \ {0}) \cup {held.out[i] : i \in 1..Len(held.out)} :
        /\ count.backward < MaxBackward
        /\ heap' = backward(heap, root)
        /\ topo' = topoOf(heap, root)
        /\ last' = Call("backward", root, heap)
        /\ count' = [count EXCEPT !.backward = @ + 1]
        /\ err' = "none"
        /\ UNCHANGED <<mlp, inputLayer, held>>

\* the gradient-descent step of the training loops
Update ==
    \E lr \in LearningRates :
        /\ mlp.built
        /\ count.update < MaxSet
        /\ count.backward > 0
        /\ heap' = updateParams(heap, MLP_parameters(mlp), lr)
        /\ count' = [count EXCEPT !.update = @ + 1]
        /\ last' = Call("update", lr, <<>>)
        /\ err' = "none"
        /\ topo' = <<>>
        /\ UNCHANGED <<mlp, inputLayer, held>>

\* network.getActivations()
GetActivations ==
    /\ mlp.built
    /\ count.acts < MaxSet
    /\ LET r == getActivations(heap, mlp, inputLayer)
       IN  /\ heap' = r.heap
           /\ err' = r.err
           /\ last' = [Call("getActivations", count.forward, <<>>) EXCEPT !.ret = r.acts]
    /\ count' = [count EXCEPT !.acts = @ + 1]
    /\ topo' = <<>>
    /\ UNCHANGED <<mlp, inputLayer, held>>

NextNet ==
    \/ NewMLP \/ CreateNetwork \/ SetParam \/ NewInput \/ Forward
    \/ NeuronForward \/ CalculateLoss \/ ZeroGrad \/ BackwardHeld \/ Update
    \/ GetActivations

SpecNet == Init /\ [][NextNet]_vars

\* ------------------------------------------------ a network and its clone
\* What the caller passes when it holds a network and, later, a clone of
\* it: it assigns parameter values, runs forward on a fresh one-number
\* input and backward on the output, on either object, and never zeroes
\* gradients.
MaxAssign == 2         \* assignments to a parameter's .data
MaxSamples == 2        \* forward calls, and backward calls, on the two objects
CloneShapes == {[nin |-> 1, nouts |-> <<1>>, activations |-> <<>>],
                [nin |-> 1, nouts |-> <<1, 1>>, activations |-> <<>>],
                [nin |-> 1, nouts |-> <<1, 1>>, activations |-> <<"linear", "linear">>]}
AssignVals == {-1, 2}
SampleInputs == {<<-1>>, <<2>>}
NoClone == [clone |-> NoNet, cloneInput |-> Null, out |-> <<>>, on |-> "source"]

\* new MLP(nin, nouts, activations) has run
InitApi ==
    \E sh \in CloneShapes :
        /\ heap = MLP(<<>>, sh.nin, sh.nouts, sh.activations).heap
        /\ mlp = MLP(<<>>, sh.nin, sh.nouts, sh.activations).obj
        /\ topo = <<>>
        /\ last = NoCall
        /\ count = NoCount
        /\ inputLayer = Null
        /\ err = "none"
        /\ held = NoClone

\* the objects the caller holds, and the object a name stands for
Nets == IF held.clone.built THEN {"source", "clone"} ELSE {"source"}
NetOf(which) == IF which = "source" THEN mlp ELSE held.clone

\* net.parameters()[i].data = v, by the caller
AssignParam ==
    \E which \in Nets, v \in AssignVals :
        \E i \in 1..Len(MLP_parameters(NetOf(which))) :
            LET p == MLP_parameters(NetOf(which))[i]
            IN  /\ count.set < MaxAssign
                /\ heap[p].data # v
                /\ heap' = [heap EXCEPT ![p].data = v]
                /\ count' = [count EXCEPT !.set = @ + 1]
                /\ last' = [Call("assign", p, heap) EXCEPT !.ret = which]
                /\ topo' = <<>>
                /\ UNCHANGED <<mlp, inputLayer, err, held>>

\* net.forward([new Value(x)])
ForwardOn ==
    \E which \in Nets, x \in SampleInputs :
        /\ count.forward < MaxSamples
        /\ LET ids == IdRange(Len(heap) + 1, Len(x))
               il  == IF which = "source" THEN inputLayer ELSE held.cloneInput
               r   == MLP_forward(inputValues(heap, x), NetOf(which), il, ids)
           IN  /\ heap' = r.heap
               /\ err' = r.err
               /\ inputLayer' = IF which = "source" THEN r.inputLayer ELSE inputLayer
               /\ held' = [held EXCEPT
                              !.out = r.out, !.on = which,
                              !.cloneInput = IF which = "clone" THEN r.inputLayer ELSE @]
        /\ count' = [count EXCEPT !.forward = @ + 1]
        /\ last' = [Call("forward", Len(x), heap) EXCEPT !.ret = which]
        /\ topo' = <<>>
        /\ UNCHANGED mlp

\* output.backward(), on the output of the latest forward call
BackwardOut ==
    /\ held.out # <<>>
    /\ count.backward < MaxSamples
    /\ heap' = backward(heap, held.out[1])
    /\ topo' = topoOf(heap, held.out[1])
    /\ held' = [held EXCEPT !.out = <<>>]
    /\ count' = [count EXCEPT !.backward = @ + 1]
    /\ last' = [Call("backward", held.out[1], heap) EXCEPT !.ret = held.on]
    /\ UNCHANGED <<mlp, inputLayer, err>>

\* const snapshot = network.clone()
CloneNet ==
    /\ ~held.clone.built
    /\ heap' = clone(heap, mlp).heap
    /\ held' = [held EXCEPT !.clone = clone(heap, mlp).obj]
    /\ last' = Call("clone", 0, heap)
    /\ topo' = <<>>
    /\ UNCHANGED <<count, mlp, inputLayer, err>>

NextApi == AssignParam \/ ForwardOn \/ BackwardOut \/ CloneNet

SpecApi == InitApi /\ [][NextApi]_vars

\* ----------------------------------- the TrainingVisualizer component
\* The component comes in two versions: the one of TrainingVisualizer.tsx
\* and the one kept in NetworkArchitecture.tsx.  A handler works on the
\* record m of what it reads and writes: the heap, the network's
\* inputLayer, the input `fed` to the latest forward call that returned,
\* the output of the latest forward call, the animationSteps,
\* the error it caught, and three records of what it did (`cyc`, the
\* per-sample cycle under way, `done`, the cycles it finished, `acts`, its
\* latest getActivations call, with, in `now`, what a forward pass on the
\* stored input gives at that moment).
Versions == {"TrainingVisualizer", "NetworkArchitecture"}
MaxEpochs == 2         \* the state `epochs`
MaxSteps == 4          \* clicks on Next Step
MaxStarts == 1         \* clicks on Start Training
MaxChanges == 1        \* datasets generated after the first
TrainLayers == {<<LayerCfg(1, "linear", "input"), LayerCfg(1, "linear", "output")>>,
                <<LayerCfg(1, "linear", "input"), LayerCfg(1, "relu", "hidden"),
                  LayerCfg(1, "linear", "output")>>}
Point(x, y) == [x |-> x, y |-> y]
TrainSets == {<<Point(1, 2)>>, <<Point(0, 1), Point(1, -1)>>}
TestSets == {<<Point(0, 2)>>}

NoCycle == [sample |-> Point(0, 0), loss |-> 0,
            dataAtForward |-> <<>>, gradAtForward |-> <<>>,
            dataAtBackward |-> <<>>, gradAtBackward |-> <<>>,
            gradAfterBackward |-> <<>>,
            dataAtUpdate |-> <<>>, gradAtUpdate |-> <<>>, dataAfterUpdate |-> <<>>]
NoActs == [il |-> Null, fed |-> Null, acts |-> <<>>, preLen |-> 0, kept |-> TRUE,
           data |-> <<>>, grad |-> <<>>, now |-> <<>>,
           dataBefore |-> <<>>, gradBefore |-> <<>>,
           dataAfter |-> <<>>, gradAfter |-> <<>>]

\* network.parameters().map(param => param.data), and .grad likewise
RECURSIVE DataOf(_, _)
DataOf(h, ps) ==
    IF ps = <<>> THEN <<>> ELSE <<h[Head(ps)].data>> \o DataOf(h, Tail(ps))

RECURSIVE GradOf(_, _)
GradOf(h, ps) ==
    IF ps = <<>> THEN <<>> ELSE <<h[Head(ps)].grad>> \o GradOf(h, Tail(ps))

\* what net.forward(input) leaves, r being its result
forwardValue_return(m, r) ==
    [m EXCEPT !.heap = r.heap, !.il = r.inputLayer, !.out = r.out,
              !.err = IF r.err = "none" THEN @ ELSE r.err,
              !.fed = IF r.err = "none" THEN <<Len(m.heap) + 1>> ELSE @]

\* const input = [new Value(x)]; const output = net.forward(input)
forwardValue(m, net, x) ==
    forwardValue_return(m,
        MLP_forward(Append(m.heap, Value(m.heap, x, <<>>, "")), net, m.il,
                    <<Len(m.heap) + 1>>))

\* the loss is built: h is the heap holding it, its last node
cycle_built(m, h, ps, sample) ==
    [m EXCEPT !.heap = h,
              !.cyc = [NoCycle EXCEPT !.sample = sample, !.loss = Len(h),
                                      !.dataAtForward = DataOf(h, ps),
                                      !.gradAtForward = GradOf(m.heap, ps)]]

\* const prediction = Array.isArray(output) ? output[0] : output;
\* const target = new Value(sample.y); const loss = ..., composed with
\* mul in TrainingVisualizer.tsx and with pow(2) in NetworkArchitecture.tsx
cycle_loss(m, ps, sample, version) ==
    cycle_built(m,
                IF version = "NetworkArchitecture"
                THEN powLoss(m.heap, m.out[1], sample.y)
                ELSE calculateLoss(m.heap, m.out[1], sample.y, "mse"),
                ps, sample)

cycle_forward(m, net, sample, version) ==
    cycle_loss(forwardValue(m, net, sample.x), MLP_parameters(net), sample, version)

\* what the backward pass leaves: z is the heap zeroGrad left
cycle_backward_return(m, z, b, ps) ==
    [m EXCEPT !.heap = b,
              !.cyc = [@ EXCEPT !.dataAtBackward = DataOf(z, ps),
                                !.gradAtBackward = GradOf(z, ps),
                                !.gradAfterBackward = GradOf(b, ps)]]

\* loss.backward() run on the gradients the earlier cycles left
cycle_backward_run_keepGrad(m, z, ps) ==
    cycle_backward_return(m, z, backward(m.heap, m.cyc.loss), ps)

cycle_backward_run(m, z, ps) ==
    cycle_backward_return(m, z, backward(z, m.cyc.loss), ps)

\* the backward pass with network.zeroGrad() left out
cycle_backward_noZeroGrad(m, ps) == cycle_backward_run(m, m.heap, ps)

\* network.zeroGrad(); loss.backward()
cycle_backward(m, ps) == cycle_backward_run(m, zeroGrad(m.heap, ps), ps)

\* what the update loop leaves: u is the heap after it
cycle_update_return(m, u, ps) ==
    [m EXCEPT !.heap = u,
              !.cyc = NoCycle,
              !.done = Append(@, [m.cyc EXCEPT !.dataAtUpdate = DataOf(m.heap, ps),
                                              !.gradAtUpdate = GradOf(m.heap, ps),
                                              !.dataAfterUpdate = DataOf(u, ps)])]

\* for (const param of network.parameters()) param.data -= learningRate * param.grad
cycle_update(m, ps, learningRate) ==
    cycle_update_return(m, updateParams(m.heap, ps, learningRate), ps)

\* data.map(point => net.forward([new Value(point.x)])), the getCurrentPredictions
\* of TrainingVisualizer.tsx and the getTestPredictions of both versions
RECURSIVE predictPoints(_, _, _)
predictPoints(m, net, data) ==
    IF data = <<>> THEN m
    ELSE predictPoints(forwardValue(m, net, Head(data).x), net, Tail(data))

\* Math.min(...data.map(d => d.x)) and Math.max(...data.map(d => d.x))
RECURSIVE MinX(_)
MinX(data) ==
    IF Len(data) = 1 THEN data[1].x
    ELSE IF Head(data).x < MinX(Tail(data)) THEN Head(data).x ELSE MinX(Tail(data))

RECURSIVE MaxX(_)
MaxX(data) ==
    IF Len(data) = 1 THEN data[1].x
    ELSE IF Head(data).x > MaxX(Tail(data)) THEN Head(data).x ELSE MaxX(Tail(data))

\* for (let x = xMin; x <= xMax; x += step) net.forward([new Value(x)]):
\* the numbers of the model being whole, the grid is walked in steps of 1.
\* (With xMin = xMax the step of the source is 0 and its loop does not end:
\* this version is given data with two different x.)
RECURSIVE sweep(_, _, _, _)
sweep(m, net, x, xMax) ==
    IF x > xMax THEN m ELSE sweep(forwardValue(m, net, x), net, x + 1, xMax)

\* getCurrentPredictions(net, data)
getCurrentPredictions(m, net, data, version) ==
    IF version = "NetworkArchitecture"
    THEN sweep(m, net, MinX(data), MaxX(data))
    ELSE predictPoints(m, net, data)

\* lists.map(list => list.map(v => v.data)), and .grad likewise
RECURSIVE DataOfLists(_, _)
DataOfLists(h, lists) ==
    IF lists = <<>> THEN <<>>
    ELSE <<DataOf(h, Head(lists))>> \o DataOfLists(h, Tail(lists))

RECURSIVE GradOfLists(_, _)
GradOfLists(h, lists) ==
    IF lists = <<>> THEN <<>>
    ELSE <<GradOf(h, Head(lists))>> \o GradOfLists(h, Tail(lists))

\* the values a forward pass on x gives after each of the first k layers,
\* with the parameters as h holds them
feedData_one(r) == DataOf(r.heap, r.out)

RECURSIVE feedData(_, _, _, _)
feedData(h, layers, x, k) ==
    IF k = 0 THEN <<DataOf(h, x)>>
    ELSE Append(feedData(h, layers, x, k - 1), feedData_one(MLP_feed(h, layers, x, k)))

\* what network.getActivations() leaves, r being its result
activations_return(m, r, ps) ==
    [m EXCEPT !.heap = r.heap,
              !.err = IF r.err = "none" THEN @ ELSE r.err,
              !.acts = [il |-> m.il, fed |-> m.fed, acts |-> r.acts,
                        preLen |-> Len(m.heap),
                        kept |-> (SubSeq(r.heap, 1, Len(m.heap)) = m.heap),
                        data |-> DataOfLists(r.heap, r.acts),
                        grad |-> GradOfLists(r.heap, r.acts),
                        now |-> m.now,
                        dataBefore |-> DataOf(m.heap, ps),
                        gradBefore |-> GradOf(m.heap, ps),
                        dataAfter |-> DataOf(r.heap, ps),
                        gradAfter |-> GradOf(r.heap, ps)]]

\* activations: network.getActivations()
activations_call(m, net) ==
    activations_return(m, getActivations(m.heap, net, m.il), MLP_parameters(net))

activations(m, net) ==
    activations_call([m EXCEPT !.now = feedData(m.heap, net.layers, m.il,
                                                Len(net.layers))],
                     net)

\* networkState: network.clone(), r being the result of clone, and the
\* step pushed: setAnimationSteps(prev => [...prev, step])
pushStep_return(m, r, epoch, sampleIndex) ==
    [m EXCEPT !.heap = r.heap,
              !.steps = Append(@, [epoch |-> epoch, sampleIndex |-> sampleIndex,
                                   activations |-> m.acts.acts,
                                   networkState |-> r.obj])]

pushStep(m, net, epoch, sampleIndex) ==
    pushStep_return(m, clone(m.heap, net), epoch, sampleIndex)

\* network.getGradients(): MLP has no such method in the sources at hand;
\* it is taken to read the gradients of the parameters and change nothing.
getGradients(m) == m

\* const loss = ... for a sample of testData, in calculateValidationLoss
validationLoss_one(m, sample) ==
    [m EXCEPT !.heap = calculateLoss(m.heap, m.out[1], sample.y, "mse")]

\* calculateValidationLoss(network, testData)
RECURSIVE calculateValidationLoss(_, _, _)
calculateValidationLoss(m, net, testData) ==
    IF testData = <<>> THEN m
    ELSE calculateValidationLoss(
             validationLoss_one(forwardValue(m, net, Head(testData).x), Head(testData)),
             net, Tail(testData))

\* ------------------------------------------------------- startTraining
\* startTraining runs as the blocks between its awaits.  c holds the
\* handler's record m and its position st = [pc, epoch, i, order,
\* suspended]; e holds what its closure reads: version, network, trainData,
\* testData, learningRate, epochs, and the order the next shuffle gives.

\* the blocks that end with `await new Promise(resolve => setTimeout(...))`
st_awaits_afterBackward(pc) == pc \in {"record", "epochEnd", "backward"}

st_awaits(pc) == pc \in {"record", "epochEnd"}

\* forward pass of sample i, and in NetworkArchitecture.tsx the forwardStep
st_forward(m, e, st) ==
    IF e.version = "NetworkArchitecture"
    THEN pushStep(getCurrentPredictions(activations(m, e.network), e.network,
                                        e.trainData, e.version),
                  e.network, st.epoch, st.i)
    ELSE m

\* what follows loss.backward() in NetworkArchitecture.tsx: getGradients and
\* the backwardStep
st_backward(m, e, st) ==
    IF e.version = "NetworkArchitecture"
    THEN pushStep(getCurrentPredictions(activations(getGradients(m), e.network),
                                        e.network, e.trainData, e.version),
                  e.network, st.epoch, st.i)
    ELSE m

\* `predictions: currentPreds` names a variable startTraining does not
\* declare: the step object is not built, a ReferenceError is thrown
st_record(m, e) ==
    [activations(getCurrentPredictions(m, e.network, e.trainData, e.version),
                 e.network)
       EXCEPT !.err = "ReferenceError"]

\* catch (error) { console.error('Training error:', error) }
st_catch(m) == [m EXCEPT !.caught = m.err, !.err = "none"]

\* the end of an epoch in NetworkArchitecture.tsx: metrics and the step
st_epochEnd(m, e, st) ==
    predictPoints(
        pushStep(activations(calculateValidationLoss(
                                 getCurrentPredictions(m, e.network, e.trainData,
                                                       e.version),
                                 e.network, e.testData),
                             e.network),
                 e.network, st.epoch, Len(e.trainData) - 1),
        e.network, e.testData)

\* the position after the block at pc, b being the record it left
st_next(b, e, st) ==
    IF b.err # "none"
    THEN [m |-> st_catch(b), st |-> [st EXCEPT !.pc = "finally"]]
    ELSE [m |-> b,
          st |-> CASE st.pc = "forward" -> [st EXCEPT !.pc = "backward"]
                   [] st.pc = "backward" -> [st EXCEPT !.pc = "update"]
                   [] st.pc = "update" ->
                        IF e.version = "TrainingVisualizer"
                        THEN [st EXCEPT !.pc = "record"]
                        ELSE [st EXCEPT !.i = @ + 1,
                                        !.pc = IF st.i + 1 < Len(st.order)
                                               THEN "forward" ELSE "epochEnd"]
                   [] st.pc = "record" ->
                        [st EXCEPT !.i = @ + 1,
                                   !.pc = IF st.i + 1 < Len(st.order) THEN "forward"
                                          ELSE "nextEpoch"]
                   [] st.pc = "epochEnd" -> [st EXCEPT !.pc = "nextEpoch"]
                   [] st.pc = "nextEpoch" ->
                        IF st.epoch + 1 < e.epochs
                        THEN [st EXCEPT !.epoch = @ + 1, !.i = 0, !.order = e.order,
                                        !.pc = "forward"]
                        ELSE [st EXCEPT !.pc = "finally"]
                   [] st.pc = "finally" -> [st EXCEPT !.pc = "idle"]]

\* the block at pc
st_block(m, e, st) ==
    CASE st.pc = "forward" ->
           st_forward(cycle_forward(m, e.network, st.order[st.i + 1], e.version),
                      e, st)
      [] st.pc = "backward" ->
           st_backward(cycle_backward(m, MLP_parameters(e.network)), e, st)
      [] st.pc = "update" ->
           cycle_update(m, MLP_parameters(e.network), e.learningRate)
      [] st.pc = "record" -> st_record(m, e)
      [] st.pc = "epochEnd" -> st_epochEnd(m, e, st)
      [] st.pc = "nextEpoch" -> m
      [] st.pc = "finally" -> [m EXCEPT !.isTraining = FALSE]

\* the block at pc run, and the handler suspended if the block ends with
\* an await it reached
st_suspend(n, pc) ==
    [n EXCEPT !.st.suspended = (st_awaits(pc) /\ n.st.pc # "finally")]

st_step(c, e) == st_suspend(st_next(st_block(c.m, e, c.st), e, c.st), c.st.pc)

\* startTraining from its position to its next await, or to its end
RECURSIVE st_run(_, _)
st_run(c, e) ==
    IF c.st.pc = "idle" \/ c.st.suspended THEN c ELSE st_run(st_step(c, e), e)

\* setIsTraining(true) and the lists startTraining empties before its loop
st_begin(m, version) ==
    [m EXCEPT !.isTraining = TRUE,
              !.steps = IF version = "NetworkArchitecture" THEN <<>> ELSE @]

\* ---------------------------------------------------- performSingleStep
\* setCurrentStep({type, activations: network.getActivations(), ...,
\* networkState: network.clone()}), r being the result of clone
setCurrentStep_return(m, r, type, sampleIndex) ==
    [m EXCEPT !.heap = r.heap,
              !.currentStep = [type |-> type, sampleIndex |-> sampleIndex,
                               activations |-> m.acts.acts,
                               networkState |-> r.obj]]

setCurrentStep_clone(m, net, type, sampleIndex) ==
    setCurrentStep_return(m, clone(m.heap, net), type, sampleIndex)

setCurrentStep(m, net, type, sampleIndex) ==
    setCurrentStep_clone(activations(m, net), net, type, sampleIndex)

\* the branch stepPhase === 'forward'
ps_forward(m, e, sampleIndex) ==
    setCurrentStep(
        getCurrentPredictions(forwardValue(m, e.network, e.trainData[sampleIndex + 1].x),
                              e.network, e.trainData, e.version),
        e.network, "forward", sampleIndex)

\* the else branch: the backward pass on the sample, the update, the step
ps_backward(m, e, sampleIndex) ==
    setCurrentStep(
        getCurrentPredictions(
            cycle_update(
                cycle_backward(
                    cycle_forward(m, e.network, e.trainData[sampleIndex + 1],
                                  "TrainingVisualizer"),
                    MLP_parameters(e.network)),
                MLP_parameters(e.network), e.learningRate),
            e.network, e.trainData, e.version),
        e.network, "backward", sampleIndex)

\* const nextIndex = sampleIndex >= trainData.length - 1 ? 0 : sampleIndex + 1
nextIndex(sampleIndex, n) == IF sampleIndex >= n - 1 THEN 0 ELSE sampleIndex + 1

\* the step pushed after either branch:
\* epoch: Math.floor(sampleIndex / trainData.length)
ps_pushStep(m, e, sampleIndex) ==
    pushStep(activations(m, e.network), e.network,
             sampleIndex \div Len(e.trainData), sampleIndex)

performSingleStep(m, e, sampleIndex, stepPhase) ==
    ps_pushStep(IF stepPhase = "forward" THEN ps_forward(m, e, sampleIndex)
                ELSE ps_backward(m, e, sampleIndex),
                e, sampleIndex)

\* --------------------------------------------------- component actions
\* [...trainData].sort(() => Math.random() - 0.5): some order of the samples
Shuffles(data) == {data, Reverse(data)}

\* where startTraining stands, and what its closure holds: the network,
\* with the input that network stores, and the training data
NoPosition == [pc |-> "idle", epoch |-> 0, i |-> 0, order |-> <<>>,
               suspended |-> FALSE,
               network |-> NoNet, il |-> Null, fed |-> Null, trainData |-> <<>>]
NoTrainCount == [starts |-> 0, steps |-> 0, changes |-> 0]

\* the record a handler starts with
Machine(cyc, il, fed) ==
    [heap |-> heap, il |-> il, fed |-> fed, out |-> <<>>,
     steps |-> held.steps,
     currentStep |-> held.currentStep, isTraining |-> held.isTraining,
     err |-> "none", caught |-> "none", now |-> <<>>,
     cyc |-> cyc, done |-> <<>>, acts |-> NoActs]

\* what the closure of a handler reads; order is what the shuffle gives
Env(network, trainData, order) ==
    [version |-> held.version, network |-> network, trainData |-> trainData,
     testData |-> held.testData, learningRate |-> held.learningRate,
     epochs |-> MaxEpochs, order |-> order]

\* the effect that runs when the component mounts: createNetwork(layers),
\* the initial predictions, and the first animation step, which holds the
\* network itself
mount_step(m, net) ==
    [m EXCEPT !.steps = <<[epoch |-> 0, sampleIndex |-> 0,
                           activations |-> m.acts.acts, networkState |-> net]>>]

mount_predict(r, trainData) ==
    mount_step(
        activations(
            predictPoints([heap |-> r.heap, il |-> r.inputLayer,
                           fed |-> r.inputLayer, out |-> <<>>,
                           steps |-> <<>>, currentStep |-> <<>>,
                           isTraining |-> FALSE, err |-> "none", caught |-> "none",
                           now |-> <<>>,
                           cyc |-> NoCycle, done |-> <<>>, acts |-> NoActs],
                          r.mlp, trainData),
            r.mlp),
        r.mlp)

\* the effect that draws the network once it is set:
\* setCurrentStep({type: 'forward', activations: network.getActivations(),
\* ..., networkState: network})
mount_drawn(m, net) ==
    [m EXCEPT !.currentStep = [type |-> "forward", sampleIndex |-> 0,
                               activations |-> m.acts.acts, networkState |-> net]]

mount_draw(m, net) == mount_drawn(activations(m, net), net)

mount(h, layers, trainData) ==
    mount_draw(mount_predict(createNetwork(h, layers), trainData),
               createNetwork(h, layers).mlp)

InitTrain ==
    \E version \in Versions, layers \in TrainLayers, trainData \in TrainSets,
       testData \in TestSets, lr \in LearningRates :
        /\ version = "NetworkArchitecture" => MinX(trainData) < MaxX(trainData)
        /\ heap = mount(<<>>, layers, trainData).heap
        /\ inputLayer = mount(<<>>, layers, trainData).il
        /\ mlp = createNetwork(<<>>, layers).mlp
        /\ err = "none"
        /\ topo = <<>>
        /\ last = NoCall
        /\ count = NoTrainCount
        /\ held = [version |-> version, layers |-> layers, trainData |-> trainData,
                   testData |-> testData, learningRate |-> lr,
                   isTraining |-> FALSE, stepPhase |-> "forward", sampleIndex |-> 0,
                   st |-> NoPosition, cyc |-> NoCycle,
                   fed |-> mount(<<>>, layers, trainData).fed,
                   steps |-> mount(<<>>, layers, trainData).steps,
                   currentStep |-> mount(<<>>, layers, trainData).currentStep,
                   phases |-> <<>>]

\* what a block of startTraining leaves when it hands control back; the
\* network it works on is the component's unless that one was replaced
st_done(c, op) ==
    /\ heap' = c.m.heap
    /\ inputLayer' = IF c.st.network = mlp THEN c.m.il ELSE inputLayer
    /\ err' = c.m.caught
    /\ held' = [held EXCEPT !.isTraining = c.m.isTraining,
                            !.st = [c.st EXCEPT !.il = c.m.il, !.fed = c.m.fed],
                            !.cyc = c.m.cyc, !.steps = c.m.steps,
                            !.fed = IF c.st.network = mlp THEN c.m.fed ELSE @]
    /\ last' = [op |-> op, arg |-> c.st.epoch, pre |-> heap,
                ret |-> [phase |-> "train", done |-> c.m.done, acts |-> c.m.acts]]
    /\ topo' = <<>>
    /\ UNCHANGED mlp

\* a click on Start Training: startTraining up to its first await or its end
StartTraining ==
    \E order \in Shuffles(held.trainData) :
        /\ mlp.built /\ Len(held.trainData) > 0 /\ ~held.isTraining
        /\ held.version = "TrainingVisualizer" => order = held.trainData
        /\ count.starts < MaxStarts
        /\ count' = [count EXCEPT !.starts = @ + 1]
        /\ st_done(st_run([m  |-> st_begin(Machine(NoCycle, inputLayer, held.fed),
                                               held.version),
                           st |-> [NoPosition EXCEPT !.pc = "forward", !.order = order,
                                                     !.network = mlp,
                                                     !.trainData = held.trainData]],
                          Env(mlp, held.trainData, order)),
                   "startTraining")

\* the timer of the await fires: startTraining goes on to its next await
\* or to its end
TimerFires ==
    \E order \in Shuffles(held.st.trainData) :
        /\ held.st.suspended
        /\ st_done(st_run([m  |-> Machine(held.cyc, held.st.il, held.st.fed),
                           st |-> [held.st EXCEPT !.suspended = FALSE]],
                          Env(held.st.network, held.st.trainData, order)),
                   "timer")
        /\ UNCHANGED count

\* what performSingleStep leaves: the phase and the sample index it set
ps_done(m, phase) ==
    /\ heap' = m.heap
    /\ inputLayer' = m.il
    /\ err' = m.caught
    /\ held' = [held EXCEPT
                   !.steps = m.steps, !.currentStep = m.currentStep,
                   !.fed = m.fed,
                   !.st = IF @.network = mlp THEN [@ EXCEPT !.il = m.il, !.fed = m.fed]
                          ELSE @,
                   !.stepPhase = IF phase = "forward" THEN "backward" ELSE "forward",
                   !.sampleIndex = IF phase = "forward" THEN @
                                   ELSE nextIndex(@, Len(held.trainData)),
                   !.phases = Append(@, phase)]
    /\ last' = [op |-> "performSingleStep", arg |-> held.sampleIndex, pre |-> heap,
                ret |-> [phase |-> phase, done |-> m.done, acts |-> m.acts]]
    /\ topo' = <<>>
    /\ UNCHANGED mlp

\* a click on Next Step.  Only TrainingVisualizer.tsx binds the handler to
\* a button; it is let run in both versions, whenever no handler runs.
PerformSingleStep ==
    /\ mlp.built
    /\ held.sampleIndex < Len(held.trainData)
    /\ count.steps < MaxSteps
    /\ count' = [count EXCEPT !.steps = @ + 1]
    /\ ps_done(performSingleStep(Machine(NoCycle, inputLayer, held.fed),
                                 Env(mlp, held.trainData, <<>>),
                                 held.sampleIndex, held.stepPhase),
               held.stepPhase)

\* what the effects leave that run when the parent passes other training
\* data: a new network, its first animation step and the step drawn; the
\* sample index and the phase of the step mode stay as they are
mount_done(m, net, trainData) ==
    /\ heap' = m.heap
    /\ inputLayer' = m.il
    /\ mlp' = net
    /\ err' = m.caught
    /\ held' = [held EXCEPT !.trainData = trainData, !.steps = m.steps,
                            !.currentStep = m.currentStep, !.fed = m.fed]
    /\ last' = [op |-> "mount", arg |-> held.sampleIndex, pre |-> heap,
                ret |-> [phase |-> "mount", done |-> m.done, acts |-> m.acts]]
    /\ topo' = <<>>

\* the dataset is generated anew: handleDatasetChange sets the trainData
\* the parent passes, a new array whatever it holds
DataChanges ==
    \E trainData \in TrainSets :
        /\ held.version = "NetworkArchitecture" => MinX(trainData) < MaxX(trainData)
        /\ count.changes < MaxChanges
        /\ count' = [count EXCEPT !.changes = @ + 1]
        /\ mount_done(mount(heap, held.layers, trainData),
                      createNetwork(heap, held.layers).mlp, trainData)

NextTrain == StartTraining \/ TimerFires \/ PerformSingleStep \/ DataChanges

SpecTrain == InitTrain /\ [][NextTrain]_vars

\* ------------------------------------------------- helpers of properties
\* The nodes reachable from root through operands (operands are older nodes).
RECURSIVE Reach(_, _)
Reach(h, root) ==
    {root} \cup UNION {Reach(h, h[root].prev[k]) : k \in 1..Len(h[root].prev)}

RECURSIVE ZeroUpTo(_, _)
ZeroUpTo(h, k) ==
    IF k = 0 THEN <<>> ELSE Append(ZeroUpTo(h, k - 1), [h[k] EXCEPT !.grad = 0])
ZeroAll(h) == ZeroUpTo(h, Len(h))
AllZero(h) == \A n \in 1..Len(h) : h[n].grad = 0
Operands(h, n) == {h[n].prev[k] : k \in 1..Len(h[n].prev)}

\* ------------------------------------------------ properties of networks
Params == MLP_parameters(mlp)

\* C3: on one graph, zeroGrad(); backward(); zeroGrad(); backward() leaves in
\* every parameter the gradient that a single zeroGrad(); backward() leaves.
\* `single` is what the single pair leaves on the fresh graph; the state
\* before the second backward is zeroGrad() applied to it.
C3_ZeroGradBackwardIdempotent ==
    (mlp.built /\ last.op = "backward") =>
        LET single == backward(zeroGrad(ZeroAll(last.pre), Params), last.arg)
        IN  last.pre = zeroGrad(single, Params) =>
                \A i \in 1..Len(Params) : heap[Params[i]].grad = single[Params[i]].grad

\* C6: widths [1,1], weight 2, bias 0: forward([3]) is 6, the mse loss
\* against 10 is 16, and backward on the loss after zeroGrad leaves -24 in
\* the weight and -8 in the bias.
C6_ScenarioA ==
    (mlp.built /\ mlp.inputSize = 1 /\ mlp.layerSizes = <<1>>) =>
        LET w == mlp.layers[1][1].w[1]
            b == mlp.layers[1][1].b
        IN  /\ (/\ last.op = "forward" /\ err = "none"
                /\ heap[w].data = 2 /\ heap[b].data = 0
                /\ heap[held.x[1]].data = 3) =>
                   (Len(held.out) = 1 /\ heap[held.out[1]].data = 6)
            /\ (/\ last.op = "calculateLoss"
                /\ held.type = "mse" /\ held.target = 10
                /\ heap[held.out[1]].data = 6) =>
                   heap[held.loss].data = 16
            /\ (/\ last.op = "backward" /\ last.arg = held.loss
                /\ held.type = "mse" /\ held.target = 10
                /\ heap[held.out[1]].data = 6
                /\ held.out[1] \in Reach(heap, held.loss)
                /\ held.x[1] \in Reach(heap, held.loss)
                /\ heap[held.x[1]].data = 3
                /\ \A n \in Reach(heap, held.loss) : last.pre[n].grad = 0) =>
                   (heap[w].grad = -24 /\ heap[b].grad = -8)

\* the whole scenario has run: the loss of 16 was built and backward run on it
C6_Witness ==
    /\ mlp.built /\ mlp.inputSize = 1 /\ mlp.layerSizes = <<1>>
    /\ last.op = "backward" /\ last.arg = held.loss
    /\ held.type = "mse" /\ held.target = 10
    /\ heap[mlp.layers[1][1].w[1]].data = 2 /\ heap[mlp.layers[1][1].b].data = 0
    /\ heap[held.x[1]].data = 3
    /\ heap[held.out[1]].data = 6
    /\ heap[held.loss].data = 16
    /\ count.zeroGrad > 0
    /\ \A n \in Reach(heap, held.loss) : last.pre[n].grad = 0
    /\ heap[mlp.layers[1][1].w[1]].grad = -24

\* C7: MLP.forward and Neuron.forward on an input of the wrong length throw
\* and change nothing: no node is created, no value or gradient changes and
\* the stored input layer stays what it was.
C7_ForwardArityAtomic ==
    [][(last'.op \in {"forward", "Neuron.forward"} /\ last'.arg # mlp.inputSize) =>
          (/\ err' = "InputSize"
           /\ heap' = heap
           /\ inputLayer' = inputLayer
           /\ mlp' = mlp)]_vars

\* a forward call threw for its length on a network that had a stored input
C7_Witness ==
    /\ last.op = "forward" /\ err = "InputSize"
    /\ inputLayer # Null
    /\ inputLayer # held.x
    /\ Len(heap) > 0

\* C8: constructing a network from fewer than two width entries fails and
\* yields no network, for createNetwork and for the MLP constructor.
C8_InvalidTopology ==
    (last.op \in {"MLP", "createNetwork"} /\ last.arg < 2) =>
        (err # "none" /\ ~mlp.built)

\* C9: getActivations throws when the caller has run no forward pass on the
\* network, and returns once one has completed.
C9_ActivationsNeedForward ==
    last.op = "getActivations" =>
        /\ count.ok = 0 => err = "NoInputLayer"
        /\ count.ok > 0 => err = "none"

\* the sizes [nin, ...nouts] of a network
Sizes(net) == <<net.inputSize>> \o net.layerSizes

\* how many parameters the layers before layer l hold
RECURSIVE ParamsBefore(_, _)
ParamsBefore(net, l) ==
    IF l = 1 THEN 0
    ELSE ParamsBefore(net, l - 1) + Sizes(net)[l] * (Sizes(net)[l - 1] + 1)

OrderOf(net) ==
    LET ps == MLP_parameters(net)
    IN  /\ Len(ps) = ParamsBefore(net, Len(net.layers) + 1)
        /\ \A l \in 1..Len(net.layers) : \A k \in 1..Len(net.layers[l]) :
              LET nin == Sizes(net)[l]
                  at  == ParamsBefore(net, l) + (k - 1) * (nin + 1)
              IN  /\ \A i \in 1..nin : ps[at + i] = net.layers[l][k].w[i]
                  /\ ps[at + nin + 1] = net.layers[l][k].b

\* C10: parameters() lists the weights layer by layer, neuron by neuron,
\* weight by weight, the bias last per neuron, sum of neurons x (inputs + 1)
\* entries, and no call ever changes which nodes it lists.
C10_ParametersStable ==
    [][/\ mlp'.built => OrderOf(mlp')
       /\ mlp.built => MLP_parameters(mlp') = MLP_parameters(mlp)]_vars

\* a gradient step has changed a parameter of the two-layer network in place
C10_Witness ==
    /\ mlp.built /\ mlp.layerSizes = <<2, 1>>
    /\ last.op = "update"
    /\ \E i \in 1..Len(Params) : heap[Params[i]].grad # 0 /\ heap[Params[i]].data # 0
    /\ count.acts > 0

\* ------------------------------------------------- properties of backward
\* C1: the sequence backward builds from the root holds every node reachable
\* from the root through operands exactly once, and every node comes
\* strictly after all of its operands, shared operands included.
C1_TopoOrder ==
    last.op = "backward" =>
        /\ {topo[i] : i \in 1..Len(topo)} = Reach(heap, last.arg)
        /\ \A i, j \in 1..Len(topo) : i # j => topo[i] # topo[j]
        /\ \A i \in 1..Len(topo) : \A c \in Operands(heap, topo[i]) :
               \E j \in 1..(i - 1) : topo[j] = c

\* a backward whose root reaches a node that two different consumers use
C1_Witness ==
    /\ last.op = "backward"
    /\ Len(topo) >= 4
    /\ \E i, j, k \in 1..Len(topo) :
          /\ j # k
          /\ topo[i] \in Operands(heap, topo[j])
          /\ topo[i] \in Operands(heap, topo[k])

\* C2: backward on o1.add(o2) from zero gradients leaves in every leaf w the
\* sum of what backward on o1 alone and backward on o2 alone leave in it.
C2_Additivity ==
    (last.op = "backward" /\ heap[last.arg].op = "+" /\ AllZero(last.pre)) =>
        LET o1 == heap[last.arg].prev[1]
            o2 == heap[last.arg].prev[2]
            g1 == backward(last.pre, o1)
            g2 == backward(last.pre, o2)
        IN  \A w \in Ids : IsLeaf(heap, w) =>
                heap[w].grad = g1[w].grad + g2[w].grad

\* the root is o1.add(o2), o1 and o2 two different operation nodes, and a
\* leaf w is an operand of both and got a gradient from both
C2_Witness ==
    /\ last.op = "backward" /\ heap[last.arg].op = "+" /\ AllZero(last.pre)
    /\ LET o1 == heap[last.arg].prev[1]
           o2 == heap[last.arg].prev[2]
       IN  /\ o1 # o2 /\ ~IsLeaf(heap, o1) /\ ~IsLeaf(heap, o2)
           /\ \E w \in Operands(heap, o1) \cap Operands(heap, o2) :
                 /\ IsLeaf(heap, w)
                 /\ backward(last.pre, o1)[w].grad # 0
                 /\ backward(last.pre, o2)[w].grad # 0
                 /\ heap[w].grad # 0

\* C4: a second backward on the same root, with no zeroing in between,
\* exactly doubles the gradient of every leaf below the root.  The state
\* before the second call is the one a first call leaves from zero gradients.
C4_SecondBackwardDoubles ==
    (/\ last.op = "backward"
     /\ last.pre = backward(ZeroAll(last.pre), last.arg)) =>
        \A p \in Reach(heap, last.arg) \ {last.arg} : IsLeaf(heap, p) =>
            heap[p].grad = 2 * last.pre[p].grad

\* out._backward reading the operand values recorded when the node was built.
out_backward_frozen(h, n) ==
    LET p == h[n].prev
        g == h[n].grad
        f == h[n].fwd
    IN  CASE h[n].op = "+" ->
               LET h1 == [h EXCEPT ![p[1]].grad = @ + 1 * g]
               IN  [h1 EXCEPT ![p[2]].grad = @ + 1 * g]
          [] h[n].op = "-" ->
               LET h1 == [h EXCEPT ![p[1]].grad = @ + 1 * g]
               IN  [h1 EXCEPT ![p[2]].grad = @ + (-1) * g]
          [] h[n].op = "*" ->
               LET h1 == [h EXCEPT ![p[1]].grad = @ + f[2] * g]
               IN  [h1 EXCEPT ![p[2]].grad = @ + f[1] * g]
          [] h[n].op = "ReLU" ->
               [h EXCEPT ![p[1]].grad = @ + (IF f[1] > 0 THEN 1 ELSE 0) * g]
          [] OTHER -> h

RECURSIVE runBackward_frozen(_, _, _)
runBackward_frozen(h, order, i) ==
    IF i > Len(order)
    THEN h
    ELSE runBackward_frozen(out_backward_frozen(h, order[i]), order, i + 1)

\* C5: the gradients backward produces are those computed from the operand
\* values recorded at construction, whatever was assigned to .data since.
C5_ForwardValuesFrozen ==
    last.op = "backward" =>
        LET frozen == runBackward_frozen([last.pre EXCEPT ![last.arg].grad = 1],
                                         Reverse(topo), 1)
        IN  \A n \in Ids : heap[n].grad = frozen[n].grad

\* ------------------------------------------------ properties of frames
\* the weights and the biases of a network, read off its neurons
ParamIds(net) ==
    UNION {UNION {{net.layers[l][k].b} \cup
                  {net.layers[l][k].w[i] : i \in 1..Len(net.layers[l][k].w)} :
                     k \in 1..Len(net.layers[l])} :
              l \in 1..Len(net.layers)}

\* C11: zeroGrad sets the gradient of every parameter to 0 and changes
\* nothing else: no value, no operand link, and no gradient of a node that
\* is not a parameter.
C11_ZeroGradFrame ==
    last.op = "zeroGrad" =>
        /\ Len(heap) = Len(last.pre)
        /\ \A n \in 1..Len(heap) :
              /\ heap[n].grad = IF n \in ParamIds(mlp) THEN 0 ELSE last.pre[n].grad
              /\ [heap[n] EXCEPT !.grad = 0] = [last.pre[n] EXCEPT !.grad = 0]

\* zeroGrad cleared a parameter's gradient and left one in another node
C11_Witness ==
    /\ last.op = "zeroGrad"
    /\ \E n \in ParamIds(mlp) : last.pre[n].grad # 0
    /\ \E n \in (1..Len(heap)) \ ParamIds(mlp) : heap[n].grad # 0

\* C12: a forward pass and the construction of operation nodes leave every
\* existing node as it was, its value and its gradient included.
C12_ForwardFrame ==
    [][last'.op \in {"forward", "Neuron.forward", "getActivations", "calculateLoss"} =>
          /\ Len(heap') >= Len(heap)
          /\ \A n \in 1..Len(heap) : heap'[n] = heap[n]
          /\ mlp' = mlp]_vars

\* a forward pass built nodes over parameters that held gradients
C12_Witness ==
    /\ last.op = "forward" /\ err = "none"
    /\ \E n \in ParamIds(mlp) : heap[n].grad # 0 /\ heap[n].data # 0
    /\ \E n \in 1..Len(heap) : heap[n].op = "*" /\ heap[n].data # 0

\* C13: backward leaves exactly 1 in the root's own gradient, whatever it
\* held before, and on a leaf it changes nothing but that gradient.
C13_BackwardSeedsRoot ==
    last.op = "backward" =>
        /\ heap[last.arg].grad = 1
        /\ IsLeaf(heap, last.arg) =>
              /\ Len(heap) = Len(last.pre)
              /\ \A n \in 1..Len(heap) :
                    heap[n] = IF n = last.arg THEN [last.pre[n] EXCEPT !.grad = 1]
                              ELSE last.pre[n]

\* backward ran on a leaf whose gradient was neither 0 nor 1 before, next
\* to other nodes that hold gradients
C13_Witness ==
    /\ last.op = "backward"
    /\ IsLeaf(heap, last.arg)
    /\ last.pre[last.arg].grad \notin {0, 1}
    /\ \E n \in 1..Len(heap) : n # last.arg /\ heap[n].grad # 0

\* -------------------------------------------- properties of operations
\* h and g hold the same nodes up to Len(h)
SamePrefix(h, g) == Len(g) >= Len(h) /\ \A n \in 1..Len(h) : g[n] = h[n]

\* C14: log on a value <= 0 throws, creates no node and leaves every node
\* as it was, so that backward still runs on the graph built before; log on
\* a value > 0 does not throw and appends one node over its operand.
C14_LogNonPositive ==
    /\ last.op = "log" =>
          IF last.pre[last.arg].data <= 0
          THEN /\ err = "LogNonPositive"
               /\ Len(heap) = Len(last.pre) /\ SamePrefix(last.pre, heap)
          ELSE /\ err = "none"
               /\ Len(heap) = Len(last.pre) + 1 /\ SamePrefix(last.pre, heap)
               /\ heap[Len(heap)].prev = <<last.arg>>
    /\ (last.op = "backward" /\ err = "LogNonPositive") =>
          /\ Len(heap) = Len(last.pre)
          /\ heap[last.arg].grad = 1
          /\ \A n \in 1..Len(heap) :
                [heap[n] EXCEPT !.grad = 0] = [last.pre[n] EXCEPT !.grad = 0]

\* log threw on the result of an operation, in a graph on which backward
\* had left gradients
C14_Witness ==
    /\ last.op = "log" /\ err = "LogNonPositive"
    /\ ~IsLeaf(heap, last.arg)
    /\ \E n \in 1..Len(heap) : n # last.arg /\ heap[n].grad # 0

\* the gradient the table gives operand position k of node n, for g = 1
TableGrad(h, n, k) ==
    LET p == h[n].prev
    IN  CASE h[n].op = "+" -> 1
          [] h[n].op = "-" -> IF k = 1 THEN 1 ELSE -1
          [] h[n].op = "*" -> IF k = 1 THEN h[p[2]].data ELSE h[p[1]].data
          [] h[n].op = "ReLU" -> IF h[p[1]].data > 0 THEN 1 ELSE 0

\* the value the table gives node n
TableValue(h, n) ==
    LET p == h[n].prev
    IN  CASE h[n].op = "+" -> h[p[1]].data + h[p[2]].data
          [] h[n].op = "-" -> h[p[1]].data - h[p[2]].data
          [] h[n].op = "*" -> h[p[1]].data * h[p[2]].data
          [] h[n].op = "ReLU" -> IF h[p[1]].data > 0 THEN h[p[1]].data ELSE 0

TableOps == {"+", "-", "*", "ReLU"}

\* C15: add, sub, mul and relu of leaves have the value of the table and
\* the operands [a, b] (or [a]) in the order of the call, and backward on
\* the result from zero gradients adds to each operand what the table
\* says for g = 1 (an operand given twice gets both shares).
C15_OperationTable ==
    /\ last.op \in {"add", "sub", "mul", "relu"} =>
          /\ heap[last.arg].prev = last.ret
          /\ heap[last.arg].data = TableValue(heap, last.arg)
          /\ heap[last.arg].grad = 0
    /\ (/\ last.op = "backward"
        /\ heap[last.arg].op \in TableOps
        /\ \A w \in Operands(heap, last.arg) : IsLeaf(heap, w)
        /\ AllZero(last.pre)) =>
          LET n == last.arg
              p == heap[n].prev
          IN  /\ heap[n].data = TableValue(heap, n)
              /\ \A w \in Operands(heap, n) :
                    heap[w].grad =
                        (IF p[1] = w THEN TableGrad(heap, n, 1) ELSE 0)
                        + (IF Len(p) = 2 /\ p[2] = w THEN TableGrad(heap, n, 2) ELSE 0)

\* backward ran on a.sub(b), a and b different leaves, b not 0
C15_Witness ==
    /\ last.op = "backward" /\ AllZero(last.pre)
    /\ heap[last.arg].op = "-"
    /\ heap[last.arg].prev = <<1, 2>>
    /\ heap[2].data # 0 /\ heap[1].data # heap[2].data
    /\ heap[1].grad = 1 /\ heap[2].grad = -1

\* the other composition of the squared error, built and run backward on
\* the same two leaves
OtherSquare(type, a, b) ==
    LET h0 == <<a, b>>
        o  == IF type = "mse" THEN powLoss(h0, 1, b.data)
              ELSE calculateLoss(h0, 1, b.data, "mse")
    IN  backward(o, Len(o))

\* C16: calculateLoss(..., 'mse') and prediction.add(target.mul(-1)).pow(2)
\* both have the value (p - t)^2 and, after backward from zero gradients,
\* both leave 2 * (p - t) in the prediction; each agrees with the other.
C16_SquaredErrorsAgree ==
    LET p == heap[1].data
        t == held.target
    IN  /\ (last.op = "loss" /\ held.type \in {"mse", "pow"}) =>
              heap[held.loss].data = (p - t) * (p - t)
        /\ (/\ last.op = "backward" /\ last.arg = held.loss
            /\ held.type \in {"mse", "pow"}
            /\ AllZero(last.pre)) =>
              LET other == OtherSquare(held.type, last.pre[1], last.pre[2])
              IN  /\ heap[held.loss].data = (p - t) * (p - t)
                  /\ heap[1].grad = 2 * (p - t)
                  /\ other[Len(other)].data = heap[held.loss].data
                  /\ other[1].grad = heap[1].grad

\* backward ran on the pow composition with a prediction below its target
C16_Witness ==
    /\ last.op = "backward" /\ last.arg = held.loss
    /\ held.type = "pow"
    /\ AllZero(last.pre)
    /\ heap[1].data < held.target
    /\ heap[1].grad < 0

Abs(x) == IF x < 0 THEN -x ELSE x

\* C17: the mae loss relu(diff) + relu(-diff) has the value |p - t|, for
\* diff negative, zero and positive.
C17_MaeIsAbs ==
    (last.op = "loss" /\ held.type = "mae") =>
        heap[held.loss].data = Abs(heap[1].data - held.target)

\* the mae loss of a prediction below its target
C17_Witness ==
    /\ last.op = "loss" /\ held.type = "mae"
    /\ heap[1].data - held.target < -1
    /\ heap[held.loss].data > 1

\* ------------------------------------------------ properties of layers
\* the weights and the bias of one neuron, of one layer
NeuronParamIds(n) == {n.b} \cup {n.w[i] : i \in 1..Len(n.w)}
LayerParamIds(layer) == UNION {NeuronParamIds(layer[k]) : k \in 1..Len(layer)}

\* the activation kind a neuron applies in forward
Applied(n) ==
    IF n.nonlin /\ n.activation \in {"relu", "sigmoid", "tanh"} THEN n.activation
    ELSE "linear"

\* C18: in a network built by createNetwork the neurons of every layer
\* after the input layer apply the activation kind configured for it.
C18_ConfiguredActivation ==
    (last.op = "createNetwork" /\ mlp.built) =>
        \A l \in 1..Len(mlp.layers) : \A k \in 1..Len(mlp.layers[l]) :
            Applied(mlp.layers[l][k]) = held.layers[l + 1].activation

\* the final layer of the network
FinalLayer == mlp.layers[Len(mlp.layers)]

\* C19: the outputs of a layer are one per neuron, in neuron order, each
\* built over its own neuron's parameters and the same inputs, and
\* backward from the output of neuron i changes no gradient of a weight or
\* bias of another neuron of the layer.
C19_NoCrossNeuron ==
    /\ (last.op = "forward" /\ err = "none" /\ Len(mlp.layers) > 0) =>
          /\ Len(held.out) = Len(FinalLayer)
          /\ \A k \in 1..Len(FinalLayer) :
                /\ Reach(heap, held.out[k]) \cap LayerParamIds(FinalLayer)
                      = NeuronParamIds(FinalLayer[k])
                /\ Len(mlp.layers) = 1 =>
                      \A i \in 1..Len(held.x) :
                          \E m \in Reach(heap, held.out[k]) :
                              heap[m].prev = <<FinalLayer[k].w[i], held.x[i]>>
    /\ (last.op = "backward" /\ count.ok > 0 /\ Len(mlp.layers) > 0) =>
          \A i \in 1..Len(held.out) : \A j \in 1..Len(FinalLayer) :
              (last.arg = held.out[i] /\ j # i) =>
                  \A q \in NeuronParamIds(FinalLayer[j]) :
                      heap[q].grad = last.pre[q].grad

\* backward from the second output of a two-neuron layer gave its neuron
\* gradients, next to the gradients the first neuron already held
C19_Witness ==
    /\ last.op = "backward" /\ count.ok > 0 /\ Len(mlp.layers) > 0
    /\ Len(held.out) = 2 /\ last.arg = held.out[2]
    /\ \E q \in NeuronParamIds(FinalLayer[2]) : heap[q].grad # last.pre[q].grad
    /\ \E q \in NeuronParamIds(FinalLayer[1]) : heap[q].grad # 0

\* the nodes that layer l takes as input i: the caller's, or the outputs
\* of neuron i of the layer before
FedBy(l, i, m) ==
    IF l = 1 THEN m = held.x[i]
    ELSE Reach(heap, m) \cap LayerParamIds(mlp.layers[l - 1])
            = NeuronParamIds(mlp.layers[l - 1][i])

\* C20: forward feeds the layers in order, the outputs of a layer being
\* the inputs of the next, and returns the one output node of a final layer
\* of one neuron, the whole sequence of outputs otherwise.
C20_ForwardReturn ==
    (last.op = "forward" /\ err = "none" /\ Len(mlp.layers) > 0) =>
        /\ Len(held.out) = Len(FinalLayer)
        /\ last.ret.isArray = (Len(FinalLayer) # 1)
        /\ last.ret.value = IF Len(FinalLayer) = 1 THEN held.out[1] ELSE held.out
        /\ \A k \in 1..Len(FinalLayer) :
              ParamIds(mlp) \cap Reach(heap, held.out[k])
                 = (ParamIds(mlp) \ LayerParamIds(FinalLayer))
                   \cup NeuronParamIds(FinalLayer[k])
        /\ \A l \in 1..Len(mlp.layers) : \A k \in 1..Len(mlp.layers[l]) :
              \A i \in 1..Len(mlp.layers[l][k].w) :
                  \E m \in 1..Len(heap) :
                      /\ heap[m].op = "*"
                      /\ heap[m].prev[1] = mlp.layers[l][k].w[i]
                      /\ FedBy(l, i, heap[m].prev[2])
                      /\ \E o \in 1..Len(held.out) : m \in Reach(heap, held.out[o])

\* forward ran through two layers and returned the one output unwrapped
C20_Witness ==
    /\ last.op = "forward" /\ err = "none"
    /\ Len(mlp.layers) = 2 /\ Len(mlp.layers[1]) = 2
    /\ ~last.ret.isArray
    /\ \E m \in 1..Len(heap) : heap[m].op = "ReLU" /\ heap[m].data > 0

\* ------------------------------------------- properties of the traversal
\* C22: when backward invokes a node's rule, every node below the root that
\* has it as an operand has had its own rule invoked already, and the
\* gradient the rule reads is the one the node holds when backward returns.
C22_ConsumersFirst ==
    last.op = "backward" =>
        LET order == Reverse(topo)
            seeded == [last.pre EXCEPT ![last.arg].grad = 1]
        IN  \A i \in 1..Len(order) :
                /\ \A m \in Reach(heap, last.arg) :
                       order[i] \in Operands(heap, m) =>
                           \E j \in 1..(i - 1) : order[j] = m
                /\ runBackward(seeded, SubSeq(order, 1, i - 1), 1)[order[i]].grad
                       = heap[order[i]].grad

\* backward reached an operation node that two different consumers use and
\* that passed a gradient on to its own operand
C22_Witness ==
    /\ last.op = "backward"
    /\ \E n \in Reach(heap, last.arg) :
          /\ ~IsLeaf(heap, n)
          /\ heap[n].grad # 0
          /\ \E m1, m2 \in Reach(heap, last.arg) :
                m1 # m2 /\ n \in Operands(heap, m1) /\ n \in Operands(heap, m2)
          /\ \E c \in Operands(heap, n) : heap[c].grad # last.pre[c].grad

\* what consumer m adds to operand c: one share per operand position of m
\* that holds c, each the local derivative times the gradient of m
Share(h, m, c) ==
    LET p == h[m].prev
    IN  (IF Len(p) >= 1 /\ p[1] = c THEN TableGrad(h, m, 1) * h[m].grad ELSE 0)
        + (IF Len(p) = 2 /\ p[2] = c THEN TableGrad(h, m, 2) * h[m].grad ELSE 0)

\* the shares of the consumers m..Len(h) of c that are in R
RECURSIVE ShareSum(_, _, _, _)
ShareSum(h, R, c, m) ==
    IF m > Len(h) THEN 0
    ELSE (IF m \in R THEN Share(h, m, c) ELSE 0) + ShareSum(h, R, c, m + 1)

\* C23: contributions add up over operand positions and over consumers.
\* After backward, a node used as both operands of m = a.add(a) and nowhere
\* else below the root gained 2 * m.grad, of m = a.mul(a) 2 * a.data * m.grad;
\* every node below the root gained the sum of the shares of all its
\* consumers below the root, and is in the traversal only once.
C23_ContributionsAccumulate ==
    last.op = "backward" =>
        LET R == Reach(heap, last.arg)
        IN  /\ \A m \in R : \A a \in Operands(heap, m) :
                  (/\ heap[m].prev = <<a, a>>
                   /\ \A o \in R \ {m} : a \notin Operands(heap, o)) =>
                      /\ heap[m].op = "+" =>
                            heap[a].grad = last.pre[a].grad + 2 * heap[m].grad
                      /\ heap[m].op = "*" =>
                            heap[a].grad = last.pre[a].grad
                                           + 2 * heap[a].data * heap[m].grad
            /\ \A c \in R \ {last.arg} :
                  /\ heap[c].grad = last.pre[c].grad + ShareSum(heap, R, c, 1)
                  /\ Cardinality({i \in 1..Len(topo) : topo[i] = c}) = 1

\* backward ran below a.mul(a) with a not 0, and a node with two different
\* consumers got a non-zero share from each
C23_Witness ==
    /\ last.op = "backward"
    /\ \E m \in Reach(heap, last.arg) :
          /\ heap[m].op = "*" /\ heap[m].prev[1] = heap[m].prev[2]
          /\ heap[heap[m].prev[1]].data # 0 /\ heap[m].grad # 0
    /\ \E c \in Reach(heap, last.arg) : \E m1, m2 \in Reach(heap, last.arg) :
          /\ m1 # m2
          /\ Share(heap, m1, c) # 0 /\ Share(heap, m2, c) # 0

\* -------------------------------------- properties of a network's clone
\* C24: with zeroGrad left out, a backward on the output of a freshly built
\* forward graph adds to every parameter's gradient what that backward
\* alone contributes (what it leaves from zeroed gradients): after the
\* second sample a parameter holds the sum of the two contributions.
C24_AccumulatesAcrossCalls ==
    last.op = "backward" =>
        LET ps    == MLP_parameters(NetOf(last.ret))
            alone == backward(zeroGrad(last.pre, ps), last.arg)
        IN  \A i \in 1..Len(ps) :
                heap[ps[i]].grad = last.pre[ps[i]].grad + alone[ps[i]].grad

\* the second backward on the network, the first having left a gradient in
\* a parameter that the second adds a different, non-zero amount to
C24_Witness ==
    /\ last.op = "backward" /\ last.ret = "source"
    /\ count.backward = 2
    /\ ~held.clone.built
    /\ \E p \in ParamIds(mlp) :
          /\ last.pre[p].grad # 0
          /\ heap[p].grad - last.pre[p].grad \notin {0, last.pre[p].grad}

\* C27: clone() returns a network with as many parameters as the source,
\* each with the value and the gradient of the source's parameter at the
\* same position and none of them a node of the source; afterwards an
\* assignment, a forward or a backward on one of the two objects leaves
\* the parameters of the other as they were.
C27_CloneIndependent ==
    /\ last.op = "clone" =>
          LET s == MLP_parameters(mlp)
              t == MLP_parameters(held.clone)
          IN  /\ Len(t) = Len(s)
              /\ \A i \in 1..Len(s) :
                    /\ heap[t[i]].data = heap[s[i]].data
                    /\ heap[t[i]].grad = heap[s[i]].grad
              /\ ParamIds(held.clone) \cap ParamIds(mlp) = {}
              /\ SamePrefix(last.pre, heap)
    /\ (held.clone.built /\ last.op \in {"assign", "forward", "backward"}) =>
          LET other == IF last.ret = "source" THEN held.clone ELSE mlp
          IN  \A p \in ParamIds(other) : heap[p] = last.pre[p]

\* a clone taken when the source held gradients, and a later backward on
\* the source that changed them: the clone still holds the old ones
C27_Witness ==
    /\ held.clone.built
    /\ last.op = "backward" /\ last.ret = "source"
    /\ \E i \in 1..Len(MLP_parameters(mlp)) :
          LET p == MLP_parameters(mlp)[i]
              q == MLP_parameters(held.clone)[i]
          IN  /\ heap[q].grad # 0
              /\ heap[p].grad # heap[q].grad
              /\ heap[p].grad # last.pre[p].grad

\* the output values of net on the one-number input x
OutputsOf(net, x) ==
    LET r == MLP_forward(inputValues(heap, x), net, Null,
                         IdRange(Len(heap) + 1, Len(x)))
    IN  [k \in 1..Len(r.out) |-> r.heap[r.out[k]].data]

\* C28: right after clone(), the clone and the source return the same
\* output values on every input, whatever activation kinds the source was
\* constructed with.
C28_CloneSameFunction ==
    last.op = "clone" =>
        \A x \in SampleInputs :
            /\ Len(OutputsOf(held.clone, x)) = Len(OutputsOf(mlp, x))
            /\ \A k \in 1..Len(OutputsOf(mlp, x)) :
                  OutputsOf(held.clone, x)[k] = OutputsOf(mlp, x)[k]

\* ---------------------------------------------- the training component
TrainOps == {"startTraining", "timer", "performSingleStep", "mount"}

\* the per-sample cycles the latest handler block finished
CyclesDone == IF last.op \in TrainOps THEN last.ret.done ELSE <<>>

NoGrad(s) == \A i \in 1..Len(s) : s[i] = 0

RECURSIVE fresh_set(_, _, _)
fresh_set(h, ps, data) ==
    IF ps = <<>> THEN h
    ELSE fresh_set([h EXCEPT ![Head(ps)].data = Head(data)], Tail(ps), Tail(data))

\* loss.backward() on the loss of the sample, and the gradients it leaves
fresh_backward(h, ps) == GradOf(backward(h, Len(h)), ps)

fresh_loss(r, ps, sample) ==
    fresh_backward(calculateLoss(r.heap, r.out[1], sample.y, "mse"), ps)

fresh_forward(h, net, sample) ==
    fresh_loss(MLP_forward(Append(h, Value(h, sample.x, <<>>, "")), net, Null,
                           <<Len(h) + 1>>),
               MLP_parameters(net), sample)

fresh_run(r, data, sample) ==
    fresh_forward(zeroGrad(fresh_set(r.heap, MLP_parameters(r.mlp), data),
                           MLP_parameters(r.mlp)),
                  r.mlp, sample)

\* the gradients one zeroGrad, forward, loss and backward on `sample` give
\* a newly made network whose parameters hold `data`
FreshGrad(layers, data, sample) == fresh_run(createNetwork(<<>>, layers), data, sample)

\* C25: the parameter gradients a cycle's backward leaves are those a
\* newly constructed network with the same parameter values gets from one
\* zeroGrad, forward and backward on the cycle's sample, whatever cycles
\* and other calls came before.
C25_GradOfCycleOnly ==
    \A k \in 1..Len(CyclesDone) :
        CyclesDone[k].gradAfterBackward =
            FreshGrad(held.layers, CyclesDone[k].dataAtForward, CyclesDone[k].sample)

\* a cycle of the step mode that follows a training run: it started with
\* gradients left by an earlier cycle and produced others
C25_Witness ==
    /\ last.op = "performSingleStep"
    /\ count.starts > 0
    /\ Len(CyclesDone) = 1
    /\ \E i \in 1..Len(CyclesDone[1].gradAtForward) :
           /\ CyclesDone[1].gradAtForward[i] # 0
           /\ CyclesDone[1].gradAfterBackward[i] # 0
           /\ CyclesDone[1].gradAfterBackward[i] # CyclesDone[1].gradAtForward[i]

\* the latest getActivations call of the latest handler block
ActsCalled == last.op \in TrainOps /\ last.ret.acts.acts # <<>>

\* C26: getActivations returns one list more than the network has layers;
\* the first is the input of the latest forward call that returned, be it
\* a prediction pass; the others are nodes built by the call, holding the
\* values a forward pass on that input gives with the current parameters
\* and gradient 0 whatever backward ran before; the call changes no node
\* there was, so no parameter value, no parameter gradient, and the
\* stored input stays the one of that forward call.
C26_GetActivationsRecomputes ==
    /\ inputLayer = held.fed
    /\ ActsCalled =>
        /\ Len(last.ret.acts.acts) = Len(mlp.layers) + 1
        /\ last.ret.acts.acts[1] = last.ret.acts.fed
        /\ last.ret.acts.il = last.ret.acts.fed
        /\ \A k \in 2..Len(last.ret.acts.acts) :
               /\ \A j \in 1..Len(last.ret.acts.acts[k]) :
                      last.ret.acts.acts[k][j] > last.ret.acts.preLen
               /\ NoGrad(last.ret.acts.grad[k])
        /\ last.ret.acts.data = last.ret.acts.now
        /\ last.ret.acts.kept
        /\ last.ret.acts.dataAfter = last.ret.acts.dataBefore
        /\ last.ret.acts.gradAfter = last.ret.acts.gradBefore

\* a backward phase of the step mode on a sample whose x is not the one of
\* the last training point: the call follows a backward that left gradients,
\* and its first list is the input of the prediction pass
C26_Witness ==
    /\ ActsCalled
    /\ last.op = "performSingleStep" /\ last.ret.phase = "backward"
    /\ ~NoGrad(last.ret.acts.gradBefore)
    /\ last.ret.acts.data[1] # <<held.trainData[last.arg + 1].x>>
    /\ \E k \in 2..Len(last.ret.acts.data) : last.ret.acts.data[k] # <<0>>

\* C29: startTraining is never suspended inside a per-sample cycle, and in
\* every cycle, whatever handlers ran while startTraining was suspended,
\* the parameter values at backward and at the update are those of the
\* cycle's forward and the gradients the update reads are those the
\* cycle's backward left.
C29_CyclesNotInterleaved ==
    /\ held.st.suspended => held.st.pc \in {"forward", "nextEpoch"}
    /\ held.cyc = NoCycle
    /\ \A k \in 1..Len(CyclesDone) :
           /\ CyclesDone[k].dataAtBackward = CyclesDone[k].dataAtForward
           /\ CyclesDone[k].dataAtUpdate = CyclesDone[k].dataAtForward
           /\ CyclesDone[k].gradAtUpdate = CyclesDone[k].gradAfterBackward

\* while startTraining waits for its timer, a backward phase of the step
\* mode ran a whole cycle and changed a parameter
C29_Witness ==
    /\ held.st.suspended
    /\ last.op = "performSingleStep" /\ last.ret.phase = "backward"
    /\ Len(CyclesDone) = 1
    /\ DataOf(heap, MLP_parameters(mlp)) # DataOf(last.pre, MLP_parameters(mlp))
    /\ ~NoGrad(CyclesDone[1].gradAtForward)

\* the phases the step mode went through: forward, backward, forward, ...
Alternates(phases) ==
    \A k \in 1..Len(phases) :
        phases[k] = IF k % 2 = 1 THEN "forward" ELSE "backward"

\* performSingleStep left the parameters of the network as they were
ParamsKept ==
    /\ DataOf(heap, MLP_parameters(mlp)) = DataOf(last.pre, MLP_parameters(mlp))
    /\ GradOf(heap, MLP_parameters(mlp)) = GradOf(last.pre, MLP_parameters(mlp))

\* C30: the phases of the step mode alternate, forward first; a forward
\* phase changes no parameter value and no parameter gradient and keeps
\* the sample index; a backward phase runs one cycle on the sample at the
\* index and moves the index on by one, to 0 after the last sample; the
\* sample index is always an index of the training data.
C30_StepMode ==
    /\ Alternates(held.phases)
    /\ held.stepPhase = IF Len(held.phases) % 2 = 0 THEN "forward" ELSE "backward"
    /\ last.op = "performSingleStep" /\ last.ret.phase = "forward" =>
           /\ ParamsKept
           /\ CyclesDone = <<>>
           /\ held.sampleIndex = last.arg
    /\ last.op = "performSingleStep" /\ last.ret.phase = "backward" =>
           /\ Len(CyclesDone) = 1
           /\ CyclesDone[1].sample = held.trainData[last.arg + 1]
           /\ held.sampleIndex = (last.arg + 1) % Len(held.trainData)
    /\ held.sampleIndex < Len(held.trainData)

====
